---- MODULE Spec2Model ----
(***************************************************************************)
(* Model of the curriculum-document structuring pipeline of estud.ia:      *)
(*   - services/ai_client.py          (AIClient: provider selection,       *)
(*                                     generate with offline fallback)     *)
(*   - services/plan_parser_service.py (chunking and LLM item extraction)  *)
(*   - services/curriculum_service.py  (heuristic segmentation)            *)
(* Python strings are sequences of one-character strings; Python's None    *)
(* for an optional string is the record NoneStr.                           *)
(***************************************************************************)
EXTENDS Integers, Sequences, FiniteSets, TLC

VARIABLES
    environ,      \* os.environ: AI_PROVIDER, AI_API_KEY, OPENAI_API_KEY
    client,       \* the AIClient object (constructed, provider, api_key)
    ai_call,      \* arguments and network outcome of the last generate call
    ai_out,       \* how the last generate call ended and what it returned
    ai_calls      \* number of generate calls made on the client

VARIABLES
    ex_pc,        \* extraction run: "idle", "loop" (in _collect_llm_items), "done", "raised"
    ex_args,      \* entry point and arguments of the run
    gen,          \* the _chunk_text generator the for loop draws from
    ex_log,       \* per loop iteration: the window yielded and what generate did
    collected,    \* the list _collect_llm_items builds
    gen_calls,    \* number of client.generate calls issued by the run
    ex_raised_in, \* the function an exception escaped from ("" when none did)
    ex_return,    \* the count the entry point returned
    plan_items    \* the stored plan_item rows

VARIABLES
    seg_pc,       \* segmentation: "idle", "done" (_segment_text returned)
    seg_args,     \* raw_text and institution_id of the call
    seg_out       \* the list of SegmentRecord it returned

VARIABLES
    alias_table,    \* rows of curriculum_grade_alias, in the order queries return them
    prompt_table,   \* rows of curriculum_prompt
    alias_cache,    \* lru_cache of _grade_alias_map, per institution_id
    keyword_cache,  \* lru_cache of _area_keyword_list, per institution_id
    prompt_cache,   \* lru_cache of _prompt_text, per institution_id
    handler,        \* the owner_institutions request: position and what it wrote
    lookup,         \* the last catalog lookup: arguments and result; current when it
                    \* was made with no request under way and no write followed
    writes,         \* number of catalog writes committed
    pending,        \* a request thread inside _grade_alias_map: the rows it has read
    documents,      \* the committed curriculum_document rows
    segments,       \* the committed curriculum_segment rows
    ingest,         \* the ingest_from_text / ingest_from_file call: position, document
    tmp_files,      \* the temporary files of the last ingest_from_file call that exist
    seg_query,      \* the last segments_for_grade call: arguments and rows returned
    ingests         \* number of ingest calls made

aiVars == <<environ, client, ai_call, ai_out, ai_calls>>
exVars == <<ex_pc, ex_args, gen, ex_log, collected, gen_calls, ex_raised_in, ex_return,
           plan_items>>

segVars == <<seg_pc, seg_args, seg_out>>

catVars == <<alias_table, prompt_table, alias_cache, keyword_cache, prompt_cache,
            handler, lookup, writes, pending>>

ingVars == <<documents, segments, ingest, tmp_files, seg_query, ingests>>

vars == <<aiVars, exVars, segVars, catVars, ingVars>>

\* what an action of one component leaves alone
exceptAi  == <<exVars, segVars, catVars, ingVars>>
exceptEx  == <<aiVars, segVars, catVars, ingVars>>
exceptSeg == <<aiVars, exVars, catVars, ingVars>>
exceptCat == <<aiVars, exVars, segVars, ingVars>>
exceptIng == <<aiVars, exVars, segVars, catVars>>

\* Bound on the generate calls made on one client
MaxCalls == 1

----------------------------------------------------------------------------
(* Python string primitives *)

Min(a, b) == IF a < b THEN a ELSE b
Max(a, b) == IF a > b THEN a ELSE b

\* str.isspace() characters that occur in the model's alphabet
Whitespace == {" ", "\t", "\n", "\r"}

\* stand-ins for the characters en dash and em dash
EnDash == "(endash)"
EmDash == "(emdash)"

UpperLetters == <<"A", "B", "C", "D", "E", "F", "G", "H", "I", "J", "K", "L", "M",
                  "N", "O", "P", "Q", "R", "S", "T", "U", "V", "W", "X", "Y", "Z",
                  "Á", "É", "Í", "Ó", "Ú", "Ñ">>
LowerLetters == <<"a", "b", "c", "d", "e", "f", "g", "h", "i", "j", "k", "l", "m",
                  "n", "o", "p", "q", "r", "s", "t", "u", "v", "w", "x", "y", "z",
                  "á", "é", "í", "ó", "ú", "ñ">>

IsUpperChar(c) == \E i \in 1..Len(UpperLetters) : UpperLetters[i] = c
IsLowerChar(c) == \E i \in 1..Len(LowerLetters) : LowerLetters[i] = c

\* str.lower() on one character
LowerChar(c) ==
    IF IsUpperChar(c)
    THEN LowerLetters[CHOOSE i \in 1..Len(UpperLetters) : UpperLetters[i] = c]
    ELSE c

\* str.upper() on one character
UpperChar(c) ==
    IF IsLowerChar(c)
    THEN UpperLetters[CHOOSE i \in 1..Len(LowerLetters) : LowerLetters[i] = c]
    ELSE c

\* str.lower()
Lower(s) == [i \in 1..Len(s) |-> LowerChar(s[i])]

\* str.strip(): drops leading and trailing whitespace
Strip(s) ==
    LET keep == {i \in 1..Len(s) : s[i] \notin Whitespace}
    IN  IF keep = {} THEN <<>>
        ELSE LET first == CHOOSE i \in keep : \A j \in keep : i <= j
                 last  == CHOOSE i \in keep : \A j \in keep : j <= i
             IN  SubSeq(s, first, last)

\* s[start:end] for 0 <= start (Python slice, 0-based, end exclusive)
Slice(s, start, end) ==
    IF start >= Min(end, Len(s)) THEN <<>> ELSE SubSeq(s, start + 1, Min(end, Len(s)))

\* s.rfind(c): 0-based index of the last occurrence, -1 when there is none
RFind(s, c) ==
    LET hits == {i \in 1..Len(s) : s[i] = c}
    IN  IF hits = {} THEN -1 ELSE (CHOOSE i \in hits : \A j \in hits : j <= i) - 1

\* s.strip(chars): drops leading and trailing characters of the given set
StripChars(s, chars) ==
    LET keep == {i \in 1..Len(s) : s[i] \notin chars}
    IN  IF keep = {} THEN <<>>
        ELSE LET first == CHOOSE i \in keep : \A j \in keep : i <= j
                 last  == CHOOSE i \in keep : \A j \in keep : j <= i
             IN  SubSeq(s, first, last)

\* s.replace(old, ""): removes the occurrences of old, left to right
RECURSIVE Remove(_, _)
Remove(s, old) ==
    IF Len(s) < Len(old) THEN s
    ELSE IF SubSeq(s, 1, Len(old)) = old
         THEN Remove(SubSeq(s, Len(old) + 1, Len(s)), old)
         ELSE <<s[1]>> \o Remove(Tail(s), old)

\* s.split(): the maximal runs of non-whitespace characters
RECURSIVE Split(_)
Split(s) ==
    LET keep == {i \in 1..Len(s) : s[i] \notin Whitespace}
    IN  IF keep = {} THEN <<>>
        ELSE LET first == CHOOSE i \in keep : \A j \in keep : i <= j
                 stops == {i \in first..Len(s) : s[i] \in Whitespace}
                 stop  == IF stops = {} THEN Len(s) + 1
                          ELSE CHOOSE i \in stops : \A j \in stops : i <= j
             IN  <<SubSeq(s, first, stop - 1)>> \o Split(SubSeq(s, stop, Len(s)))

\* the line boundaries str.splitlines() knows among the model's characters
LineBreaks == {"\n", "\r"}

\* s.splitlines(): "\r\n" counts as one break, no empty last line
RECURSIVE SplitLines(_)
SplitLines(s) ==
    IF s = <<>> THEN <<>>
    ELSE LET stops == {i \in 1..Len(s) : s[i] \in LineBreaks}
         IN  IF stops = {} THEN <<s>>
             ELSE LET stop == CHOOSE i \in stops : \A j \in stops : i <= j
                      skip == IF s[stop] = "\r" /\ stop < Len(s) /\ s[stop + 1] = "\n"
                              THEN stop + 1 ELSE stop
                  IN  <<SubSeq(s, 1, stop - 1)>> \o SplitLines(SubSeq(s, skip + 1, Len(s)))

\* sep.join(parts)
RECURSIVE Join(_, _)
Join(sep, parts) ==
    IF parts = <<>> THEN <<>>
    ELSE IF Len(parts) = 1 THEN parts[1]
    ELSE parts[1] \o sep \o Join(sep, Tail(parts))

DigitChars == <<"0", "1", "2", "3", "4", "5", "6", "7", "8", "9">>
IsDigitChar(c) == \E i \in 1..10 : DigitChars[i] = c

\* str(n) for an int
RECURSIVE IntStr(_)
IntStr(n) ==
    IF n < 0 THEN <<"-">> \o IntStr(0 - n)
    ELSE IF n < 10 THEN <<DigitChars[n + 1]>>
    ELSE IntStr(n \div 10) \o <<DigitChars[(n % 10) + 1]>>

\* re.findall(r"\d+", s): the first match, or <<>> when there is none
FirstDigits(s) ==
    LET ds == {i \in 1..Len(s) : IsDigitChar(s[i])}
    IN  IF ds = {} THEN <<>>
        ELSE LET first == CHOOSE i \in ds : \A j \in ds : i <= j
                 ends  == {i \in first..Len(s) : \A j \in first..i : IsDigitChar(s[j])}
                 last  == CHOOSE i \in ends : \A j \in ends : j <= i
             IN  SubSeq(s, first, last)

\* Optional strings: None, or a str
NoneStr == [some |-> FALSE, v |-> <<>>]
Some(s) == [some |-> TRUE, v |-> s]

\* bool(x) of an optional string
Truthy(o) == o.some /\ o.v # <<>>

\* (x or "")
OrEmpty(o) == IF Truthy(o) THEN o.v ELSE <<>>

\* (a or b) on optional strings
PyOr(a, b) == IF Truthy(a) THEN a ELSE b

----------------------------------------------------------------------------
(* services/ai_client.py *)

S_openai    == <<"o", "p", "e", "n", "a", "i">>
S_heuristic == <<"h", "e", "u", "r", "i", "s", "t", "i", "c">>
S_gpt4omini == <<"g", "p", "t", "-", "4", "o", "-", "m", "i", "n", "i">>

\* the closed set {"openai", "heuristic"} of __init__
SupportedProviders == {S_openai, S_heuristic}

\* (provider_override or "").strip().lower() or None, then the supported-set check
provider_override_norm(provider_override) ==
    LET n == Lower(Strip(OrEmpty(provider_override)))
    IN  IF n = <<>> THEN NoneStr
        ELSE IF n \notin SupportedProviders THEN NoneStr
        ELSE Some(n)

\* A plausible slip: the override is consulted only when no environment default is set.
ResolveProviderEnvFirst(provider_override, env_provider, api_key) ==
    IF Truthy(env_provider) THEN Lower(env_provider.v)
    ELSE IF Truthy(provider_override_norm(provider_override))
         THEN provider_override_norm(provider_override).v
    ELSE IF Truthy(api_key) THEN S_openai
    ELSE S_heuristic

\* the if/elif chain of __init__ that sets self.provider
ResolveProvider(provider_override, env_provider, api_key) ==
    IF Truthy(provider_override_norm(provider_override))
    THEN provider_override_norm(provider_override).v
    ELSE IF Truthy(env_provider) THEN Lower(env_provider.v)
    ELSE IF Truthy(api_key) THEN S_openai
    ELSE S_heuristic

\* self.model: model_override.strip() or (AI_MODEL or "gpt-4o-mini")
ResolveModel(model_override, env_model) ==
    LET override_model == Strip(OrEmpty(model_override))
    IN  IF override_model # <<>> THEN override_model
        ELSE IF Truthy(env_model) THEN env_model.v
        ELSE S_gpt4omini

\* A float: sign, whole part and the digits after the point without trailing
\* zeros, or one of the special values float() reads ("inf", "nan")
Float(negative, whole, frac) ==
    [special |-> "", negative |-> negative, whole |-> whole, frac |-> frac]
SpecialFloat(negative, name) ==
    [special |-> name, negative |-> negative, whole |-> 0, frac |-> <<>>]

IsDigits(s) == s # <<>> /\ \A i \in 1..Len(s) : IsDigitChar(s[i])

\* the number a string of digits writes
RECURSIVE DigitsValue(_)
DigitsValue(s) ==
    IF s = <<>> THEN 0
    ELSE 10 * DigitsValue(SubSeq(s, 1, Len(s) - 1))
         + ((CHOOSE i \in 1..10 : DigitChars[i] = s[Len(s)]) - 1)

RECURSIVE DropTrailingZeros(_)
DropTrailingZeros(s) ==
    IF s # <<>> /\ s[Len(s)] = "0" THEN DropTrailingZeros(SubSeq(s, 1, Len(s) - 1)) ELSE s

Parsed(v)  == [ok |-> TRUE, v |-> v]
ValueError == [ok |-> FALSE, v |-> 0]

S_inf      == <<"i", "n", "f">>
S_infinity == <<"i", "n", "f", "i", "n", "i", "t", "y">>
S_nan      == <<"n", "a", "n">>

\* float(raw) for a str without exponent and without digit separators:
\* surrounding whitespace, an optional sign, then digits with at most one
\* point, or inf / infinity / nan in any case
float_of(raw) ==
    LET s        == Strip(raw)
        signed   == s # <<>> /\ s[1] \in {"+", "-"}
        negative == s # <<>> /\ s[1] = "-"
        body     == IF signed THEN Tail(s) ELSE s
        points   == {i \in 1..Len(body) : body[i] = "."}
        point    == IF points = {} THEN Len(body) + 1 ELSE CHOOSE i \in points : TRUE
        whole    == SubSeq(body, 1, point - 1)
        frac     == SubSeq(body, point + 1, Len(body))
    IN  IF Lower(body) \in {S_inf, S_infinity} THEN Parsed(SpecialFloat(negative, "inf"))
        ELSE IF Lower(body) = S_nan THEN Parsed(SpecialFloat(negative, "nan"))
        ELSE IF /\ Cardinality(points) <= 1
                /\ whole \o frac # <<>>
                /\ \A i \in 1..Len(whole) : IsDigitChar(whole[i])
                /\ \A i \in 1..Len(frac) : IsDigitChar(frac[i])
        THEN Parsed(Float(negative, DigitsValue(whole), DropTrailingZeros(frac)))
        ELSE ValueError

\* int(raw) for a str without digit separators: surrounding whitespace, an
\* optional sign, then digits
int_of(raw) ==
    LET s      == Strip(raw)
        signed == s # <<>> /\ s[1] \in {"+", "-"}
        body   == IF signed THEN Tail(s) ELSE s
    IN  IF IsDigits(body)
        THEN Parsed(IF s[1] = "-" THEN 0 - DigitsValue(body) ELSE DigitsValue(body))
        ELSE ValueError

\* the fixed defaults of lines 43-45
DefaultTemperature == Float(FALSE, 0, <<"2">>)
DefaultMaxTokens   == 700
DefaultTimeout     == Float(FALSE, 20, <<>>)

\* _float_env(var_name, default), raw = os.getenv(var_name)
float_env(raw, default) ==
    IF ~Truthy(raw) THEN default
    ELSE IF float_of(raw.v).ok THEN float_of(raw.v).v
    ELSE default                                       \* except ValueError

\* int(os.getenv("AI_MAX_TOKENS", "700") or 700), line 44: no except clause
max_tokens_of(raw) ==
    IF ~Truthy(raw) THEN Parsed(DefaultMaxTokens) ELSE int_of(raw.v)

NoClient ==
    [constructed |-> FALSE, raised |-> FALSE, override |-> NoneStr, api_key |-> NoneStr,
     provider |-> <<>>, model |-> <<>>, temperature |-> DefaultTemperature,
     max_tokens |-> 0, timeout |-> DefaultTimeout]

\* AIClient.__init__: the fields generate reads; no object when the ValueError
\* of line 44 leaves the constructor
NewAIClient(env, provider_override, model_override) ==
    LET api_key == PyOr(env.AI_API_KEY, env.OPENAI_API_KEY)
        tokens  == max_tokens_of(env.AI_MAX_TOKENS)
    IN  IF ~tokens.ok THEN [NoClient EXCEPT !.raised = TRUE]
        ELSE [constructed |-> TRUE,
              raised      |-> FALSE,
              override    |-> provider_override,
              api_key     |-> api_key,
              provider    |-> ResolveProvider(provider_override, env.AI_PROVIDER, api_key),
              model       |-> ResolveModel(model_override, env.AI_MODEL),
              temperature |-> float_env(env.AI_TEMPERATURE, DefaultTemperature),
              max_tokens  |-> tokens.v,
              timeout     |-> float_env(env.AI_TIMEOUT, DefaultTimeout)]

\* A generate result {text, model, provider}; NoResult stands for "nothing returned"
NoResult == [text |-> <<>>, model |-> <<>>, provider |-> <<>>]
Returned(r) == [status |-> "returned", result |-> r]
Raised      == [status |-> "raised", result |-> NoResult]

\* The outcome of urlopen + read in _openai_response: an exception kind, or the
\* decoded body.  A body is modelled by what lines 117-121 read from it: whether
\* json.loads accepts it, whether "choices" is a non-empty list, the message
\* content (absent, null or a string) and the "model" field.
ContentAbsent == [present |-> FALSE, some |-> FALSE, v |-> <<>>]
ContentNull   == [present |-> TRUE,  some |-> FALSE, v |-> <<>>]
ContentStr(s) == [present |-> TRUE,  some |-> TRUE,  v |-> s]

NetFailure(kind) ==
    [kind |-> kind, json_ok |-> FALSE, choices |-> FALSE,
     content |-> ContentAbsent, model |-> NoneStr]
NetBody(json_ok, choices, content, model) ==
    [kind |-> "body", json_ok |-> json_ok, choices |-> choices,
     content |-> content, model |-> model]
NetNotUsed == NetFailure("not_called")

\* _openai_response: [raised, result]
openai_response(self, context, net) ==
    IF net.kind = "HTTPError" \/ net.kind = "URLError"
    THEN Raised                                   \* RuntimeError, lines 111-115
    ELSE IF net.kind = "timeout"
    THEN Raised                                   \* socket timeout leaves urlopen
    ELSE IF ~net.json_ok
    THEN Raised                                   \* json.loads, line 117
    ELSE LET content == IF net.choices THEN net.content ELSE ContentAbsent
         IN  IF content.present /\ ~content.some
             THEN Raised                          \* None.strip(), line 119
             ELSE LET message == Strip(content.v)
                  IN  IF message = <<>>
                      THEN Raised                 \* RuntimeError, line 121
                      ELSE Returned([text     |-> message,
                                     model    |-> IF Truthy(net.model) THEN net.model.v
                                                  ELSE self.model,
                                     provider |-> S_openai])

\* The context dict as _heuristic_response reads it: for each of the five keys
\* it looks up, the JSON type found under it ("absent" when the key is missing;
\* "str", "num", "list", "dict" stand for non-empty / non-zero values).
ContextKeys == {"scope", "metrics", "highlights", "followups", "learning"}

\* "x in v" / "for item in v" is defined for v of these types
Iterable(t) == t \in {"str", "list", "dict"}

\* Does _heuristic_response raise on this context?
heuristic_raises(context) ==
    \/ context.scope \notin {"absent", "str"}                   \* scope.upper(), line 138
    \/ /\ context.metrics \notin {"absent", "null"}              \* if metrics:
       /\ \/ ~Iterable(context.metrics)                         \* "tasks_total" in metrics
          \/ context.learning \notin {"absent", "str", "list", "dict"}  \* ... in learning
    \/ context.highlights \notin {"absent", "null", "str", "list", "dict"}
    \/ context.followups \notin {"absent", "null", "str", "list", "dict"}
    \/ context.learning \notin {"absent", "dict"}                \* learning.get, line 167

\* The values the types of a context stand for: "str" is "x", "list" is ["x"],
\* "dict" is {"x": "x"}; iterating any of them yields "x"
S_x      == <<"x">>
S_global == <<"g", "l", "o", "b", "a", "l">>

S_Reporte ==
    <<"R", "e", "p", "o", "r", "t", "e", " ">>
S_generado ==
    <<" ", EmDash, " ", "g", "e", "n", "e", "r", "a", "d", "o", " ", "a", "u", "t", "o",
      "m", "á", "t", "i", "c", "a", "m", "e", "n", "t", "e", " ", "(">>
S_UTC ==
    <<" ", "U", "T", "C", ")", ".">>
S_Resumen ==
    <<"R", "e", "s", "u", "m", "e", "n", " ", "d", "e", " ", "m", "é", "t", "r", "i", "c",
      "a", "s", ":">>
S_Hallazgos ==
    <<"H", "a", "l", "l", "a", "z", "g", "o", "s", " ", "r", "e", "l", "e", "v", "a", "n",
      "t", "e", "s", ":">>
S_Seguimientos ==
    <<"S", "e", "g", "u", "i", "m", "i", "e", "n", "t", "o", "s", " ", "p", "s", "i", "c",
      "o", "p", "e", "d", "a", "g", "ó", "g", "i", "c", "o", "s", ":">>
S_Recomendaciones ==
    <<"R", "e", "c", "o", "m", "e", "n", "d", "a", "c", "i", "o", "n", "e", "s", " ", "s",
      "u", "g", "e", "r", "i", "d", "a", "s", ":">>
S_Mantener ==
    <<"-", " ", "M", "a", "n", "t", "e", "n", "e", "r", " ", "e", "l", " ", "m", "o", "n",
      "i", "t", "o", "r", "e", "o", " ", "s", "e", "m", "a", "n", "a", "l", " ", "y", " ",
      "r", "e", "f", "o", "r", "z", "a", "r", " ", "e", "n", " ", "g", "r", "u", "p", "o",
      "s", " ", "r", "e", "d", "u", "c", "i", "d", "o", "s", ".">>

\* str.upper()
Upper(s) == [i \in 1..Len(s) |-> UpperChar(s[i])]

\* two digits, zero padded
TwoDigits(n) == <<DigitChars[(n \div 10) + 1], DigitChars[(n % 10) + 1]>>

\* f"{now:%d/%m %H:%M}" for the clock reading now, counted in seconds since
\* 1 January 00:00:00 UTC of the current year, within January
strftime(now) ==
    LET minutes == now \div 60
    IN  TwoDigits(1 + (minutes \div 1440)) \o <<"/">> \o TwoDigits(1) \o <<" ">>
        \o TwoDigits((minutes \div 60) % 24) \o <<":">> \o TwoDigits(minutes % 60)

\* "- " + item for the items of a non-empty str, list or dict
ItemLines(t) == IF t \in {"str", "list", "dict"} THEN <<<<"-", " ">> \o S_x>> ELSE <<>>

\* The lines of the heuristic report (the list before "\n".join), lines 137-171
heuristic_lines(context, now) ==
    LET scope == IF context.scope = "absent" THEN S_global ELSE S_x
    IN  <<S_Reporte \o Upper(scope) \o S_generado \o strftime(now) \o S_UTC, <<>>>>
        \o (IF Iterable(context.metrics) THEN <<S_Resumen, <<>>>> ELSE <<>>)
        \o (IF Iterable(context.highlights)
            THEN <<S_Hallazgos>> \o ItemLines(context.highlights) \o <<<<>>>> ELSE <<>>)
        \o (IF Iterable(context.followups)
            THEN <<S_Seguimientos>> \o ItemLines(context.followups) \o <<<<>>>> ELSE <<>>)
        \o <<S_Recomendaciones, S_Mantener>>

\* _heuristic_response(prompt, context, provider_override) at the clock reading now
heuristic_response(self, context, provider_override, now) ==
    IF heuristic_raises(context)
    THEN Raised
    ELSE Returned([text     |-> Strip(Join(<<"\n">>, heuristic_lines(context, now))),
                   model    |-> S_heuristic,
                   provider |-> IF Truthy(provider_override) THEN provider_override.v
                                ELSE self.provider])

\* generate takes the networked path
UsesNetwork(self) == self.provider = S_openai /\ Truthy(self.api_key)

\* A plausible slip: the provider label of the fallback is stamped on whatever
\* path answered.
generate_stamps_heuristic(self, context, net, now) ==
    IF UsesNetwork(self) /\ openai_response(self, context, net).status = "returned"
    THEN Returned([openai_response(self, context, net).result EXCEPT !.provider = S_heuristic])
    ELSE heuristic_response(self, context, Some(S_heuristic), now)

\* AIClient.generate at the clock reading now
generate(self, context, net, now) ==
    IF UsesNetwork(self) /\ openai_response(self, context, net).status = "returned"
    THEN openai_response(self, context, net)
    ELSE heuristic_response(self, context, Some(S_heuristic), now)

----------------------------------------------------------------------------
(* services/curriculum_service.py: grade labels *)

\* The rows the migration seeds into curriculum_grade_alias (institution_id NULL)
A_primero == <<"p", "r", "i", "m", "e", "r", "o">>
A_primer  == <<"p", "r", "i", "m", "e", "r">>
A_segundo == <<"s", "e", "g", "u", "n", "d", "o">>
A_tercero == <<"t", "e", "r", "c", "e", "r", "o">>
A_cuarto  == <<"c", "u", "a", "r", "t", "o">>
A_quinto  == <<"q", "u", "i", "n", "t", "o">>
A_sexto   == <<"s", "e", "x", "t", "o">>
A_septimo_acc == <<"s", "é", "p", "t", "i", "m", "o">>
A_septimo == <<"s", "e", "p", "t", "i", "m", "o">>

AliasRow(institution_id, alias, normalized_value) ==
    [institution_id |-> institution_id, alias |-> alias, normalized_value |-> normalized_value]

\* institution_id 0 stands for NULL (a global row)
default_grade_aliases ==
    <<AliasRow(0, A_primero, <<"1">>), AliasRow(0, A_primer, <<"1">>), AliasRow(0, <<"1">>, <<"1">>),
      AliasRow(0, A_segundo, <<"2">>), AliasRow(0, <<"2">>, <<"2">>),
      AliasRow(0, A_tercero, <<"3">>), AliasRow(0, <<"3">>, <<"3">>),
      AliasRow(0, A_cuarto, <<"4">>), AliasRow(0, <<"4">>, <<"4">>),
      AliasRow(0, A_quinto, <<"5">>), AliasRow(0, <<"5">>, <<"5">>),
      AliasRow(0, A_sexto, <<"6">>), AliasRow(0, <<"6">>, <<"6">>),
      AliasRow(0, A_septimo_acc, <<"7">>), AliasRow(0, A_septimo, <<"7">>),
      AliasRow(0, <<"7">>, <<"7">>)>>

\* entries[key] = value on an insertion-ordered dict kept as a sequence of pairs
DictPut(entries, key, value) ==
    IF \E i \in 1..Len(entries) : entries[i].key = key
    THEN [i \in 1..Len(entries) |->
            IF entries[i].key = key THEN [key |-> key, value |-> value] ELSE entries[i]]
    ELSE Append(entries, [key |-> key, value |-> value])

RECURSIVE PutRows(_, _)
PutRows(entries, rows) ==
    IF rows = <<>> THEN entries
    ELSE PutRows(DictPut(entries, Lower(rows[1].alias), rows[1].normalized_value), Tail(rows))

\* the tenant's rows first, then the global rows over them
grade_alias_map_global_over(rows, institution_id) ==
    LET global_rows == SelectSeq(rows, LAMBDA r : r.institution_id = 0)
        inst_rows   == SelectSeq(rows, LAMBDA r : r.institution_id = institution_id)
    IN  IF institution_id # 0
        THEN PutRows(PutRows(<<>>, inst_rows), global_rows)
        ELSE PutRows(<<>>, global_rows)

\* _grade_alias_map: global rows first, then the tenant's rows over them
grade_alias_map(rows, institution_id) ==
    LET global_rows == SelectSeq(rows, LAMBDA r : r.institution_id = 0)
        inst_rows   == SelectSeq(rows, LAMBDA r : r.institution_id = institution_id)
    IN  IF institution_id # 0
        THEN PutRows(PutRows(<<>>, global_rows), inst_rows)
        ELSE PutRows(<<>>, global_rows)

\* normalize_grade_label once _grade_alias_map has returned alias_map
normalize_on(raw, alias_map) ==
    IF ~Truthy(raw) THEN NoneStr
    ELSE LET lowered0  == Strip(Lower(raw.v))
             lowered   == Strip(Remove(Remove(Remove(lowered0, <<"°">>), <<"º">>), <<"e", "r">>))
             words     == Split(lowered)
             hits      == {i \in 1..Len(alias_map) :
                             \E w \in 1..Len(words) : words[w] = alias_map[i].key}
             digits    == FirstDigits(lowered)
         IN  IF hits # {}
             THEN Some(alias_map[CHOOSE i \in hits : \A j \in hits : i <= j].value)
             ELSE IF digits # <<>> THEN Some(digits)
             ELSE NoneStr

\* normalize_grade_label, on the alias rows the catalog holds
normalize_grade_label(raw, rows, institution_id) ==
    normalize_on(raw, grade_alias_map(rows, institution_id))

----------------------------------------------------------------------------
(* services/curriculum_service.py: the cached catalog lookups *)

\* CurriculumService.PROMPT_CONTEXT and DEFAULT_PROMPT; a prompt text is kept
\* as one token
PROMPT_CONTEXT == "curriculum_parser"
DEFAULT_PROMPT == <<"Analiza el documento curricular ...">>

PromptRow(institution_id, context, prompt_text, is_active) ==
    [institution_id |-> institution_id, context |-> context,
     prompt_text |-> prompt_text, is_active |-> is_active]

\* the tenant's prompt where the global one comes first
prompt_text_global_first(rows, context, institution_id) ==
    LET query    == SelectSeq(rows, LAMBDA r : r.context = context /\ r.is_active)
        of_inst  == SelectSeq(query, LAMBDA r : r.institution_id = institution_id)
        globals  == SelectSeq(query, LAMBDA r : r.institution_id = 0)
    IN  IF globals # <<>> THEN globals[1].prompt_text
        ELSE IF institution_id # 0 /\ of_inst # <<>> THEN of_inst[1].prompt_text
        ELSE DEFAULT_PROMPT

\* the body of _prompt_text: the tenant's active prompt, else the global
\* active prompt, else the built-in one.  The table holds at most one row per
\* (institution_id, context), so the ordering by updated_at picks that row
prompt_text(rows, context, institution_id) ==
    LET query    == SelectSeq(rows, LAMBDA r : r.context = context /\ r.is_active)
        of_inst  == SelectSeq(query, LAMBDA r : r.institution_id = institution_id)
        globals  == SelectSeq(query, LAMBDA r : r.institution_id = 0)
    IN  IF institution_id # 0 /\ of_inst # <<>> THEN of_inst[1].prompt_text
        ELSE IF globals # <<>> THEN globals[1].prompt_text
        ELSE DEFAULT_PROMPT

\* one lru_cache: per key, whether a value is stored and the value
NoEntry == [cached |-> FALSE, value |-> <<>>]
Entry(value) == [cached |-> TRUE, value |-> value]

\* the value a cached function returns: the stored one on a hit, the computed
\* one on a miss
CacheGet(cache, key, computed) ==
    IF cache[key].cached THEN cache[key].value ELSE computed

\* the cache after the call: a miss stores the computed value
CachePut(cache, key, computed) ==
    IF cache[key].cached THEN cache ELSE [cache EXCEPT ![key] = Entry(computed)]

\* cache_clear()
CacheClear(cache) == [key \in DOMAIN cache |-> NoEntry]

----------------------------------------------------------------------------
(* JSON values as json.loads returns them *)

JNull       == [t |-> "null", s |-> <<>>, n |-> 0, items |-> <<>>]
JStr(s)     == [t |-> "str",  s |-> s,    n |-> 0, items |-> <<>>]
JNum(n)     == [t |-> "num",  s |-> <<>>, n |-> n, items |-> <<>>]
JBool(b)    == [t |-> "bool", s |-> <<>>, n |-> IF b THEN 1 ELSE 0, items |-> <<>>]
JList(xs)   == [t |-> "list", s |-> <<>>, n |-> 0, items |-> xs]
\* a dict is the sequence of its key/value pairs, in insertion order
JPair(k, v) == [t |-> "pair", s |-> k,    n |-> 0, items |-> <<v>>]
JDict(ps)   == [t |-> "dict", s |-> <<>>, n |-> 0, items |-> ps]

\* d.get(key): None when the key is missing
Get(d, key) ==
    LET hits == {i \in 1..Len(d.items) : d.items[i].s = key}
    IN  IF hits = {} THEN JNull
        ELSE d.items[CHOOSE i \in hits : \A j \in hits : j <= i].items[1]

\* d[key] = value
DictSet(d, key, value) ==
    IF \E i \in 1..Len(d.items) : d.items[i].s = key
    THEN JDict([i \in 1..Len(d.items) |->
                  IF d.items[i].s = key THEN JPair(key, value) ELSE d.items[i]])
    ELSE JDict(Append(d.items, JPair(key, value)))

\* bool(v)
PyTruthy(v) ==
    CASE v.t = "null" -> FALSE
      [] v.t = "str"  -> v.s # <<>>
      [] v.t = "num"  -> v.n # 0
      [] v.t = "bool" -> v.n # 0
      [] OTHER        -> v.items # <<>>

\* (a or b)
PyOrV(a, b) == IF PyTruthy(a) THEN a ELSE b

S_None  == <<"N", "o", "n", "e">>
S_True  == <<"T", "r", "u", "e">>
S_False == <<"F", "a", "l", "s", "e">>

\* repr(v)
RECURSIVE PyRepr(_)
PyRepr(v) ==
    CASE v.t = "null" -> S_None
      [] v.t = "str"  -> <<"'">> \o v.s \o <<"'">>
      [] v.t = "num"  -> IntStr(v.n)
      [] v.t = "bool" -> IF v.n # 0 THEN S_True ELSE S_False
      [] v.t = "pair" -> <<"'">> \o v.s \o <<"'", ":", " ">> \o PyRepr(v.items[1])
      [] v.t = "list" ->
            <<"[">> \o Join(<<",", " ">>, [i \in 1..Len(v.items) |-> PyRepr(v.items[i])]) \o <<"]">>
      [] OTHER ->
            <<"{">> \o Join(<<",", " ">>, [i \in 1..Len(v.items) |-> PyRepr(v.items[i])]) \o <<"}">>

\* str(v)
PyStr(v) == IF v.t = "str" THEN v.s ELSE PyRepr(v)

----------------------------------------------------------------------------
(* services/plan_parser_service.py: chunking *)

\* PlanParserService.MAX_CHARS and PlanParserService.OVERLAP
MAX_CHARS == 6000
OVERLAP == 400

\* A plausible slip: the conditional inverted.
max_chars_for_inverted(chunk_size) == IF chunk_size # 0 THEN MAX_CHARS ELSE chunk_size

\* chunk_size or cls.MAX_CHARS (chunk_size 0 stands for None as well)
max_chars_for(chunk_size) == IF chunk_size # 0 THEN chunk_size ELSE MAX_CHARS

\* The window one pass of the while body computes from `start` (lines 271-278):
\* the slice bounds before stripping, and the stripped chunk
WindowAt(clean, max_chars, start) ==
    LET length        == Len(clean)
        end0          == Min(length, start + max_chars)
        newline_break == RFind(Slice(clean, start, end0), "\n")
        cut           == end0 < length /\ 2 * newline_break > max_chars
        end           == IF cut THEN start + newline_break ELSE end0
    IN  [start |-> start, end |-> end, chunk |-> Strip(Slice(clean, start, end))]

\* A plausible slip: the next window starts overlap characters before the end
\* of this one, whatever its length.
NextStartOverlapOnly(start, end, max_chars, overlap) == end - overlap

\* line 284: where the next window starts
NextStart(start, end, max_chars, overlap) == Max(end - overlap, start + max_chars)

\* _chunk_text(text, max_chars, overlap): the generator object before its first next()
chunk_text(text, max_chars, overlap) ==
    [state     |-> "created",
     clean     |-> Strip(text),
     max_chars |-> max_chars,
     overlap   |-> Min(overlap, max_chars \div 2),
     start     |-> 0,
     end       |-> 0]

NoGenerator ==
    [state |-> "finished", clean |-> <<>>, max_chars |-> 0, overlap |-> 0,
     start |-> 0, end |-> 0]

NoWindow == [start |-> 0, end |-> 0, chunk |-> <<>>]

\* next(generator): runs _chunk_text up to its next yield, or to its end
chunk_text_next(g) ==
    LET length == Len(g.clean)
        start  == IF g.state = "created" THEN 0
                  ELSE NextStart(g.start, g.end, g.max_chars, g.overlap)
        stop   == \/ g.state = "finished"
                  \/ (g.state = "created" /\ g.clean = <<>>)       \* line 265
                  \/ (g.state = "suspended" /\ g.end >= length)    \* line 282
                  \/ ~(start < length)                             \* line 270
        w      == WindowAt(g.clean, g.max_chars, start)
    IN  IF stop \/ w.chunk = <<>>                                  \* line 279
        THEN [gen |-> [g EXCEPT !.state = "finished"], yielded |-> FALSE, window |-> NoWindow]
        ELSE [gen |-> [g EXCEPT !.state = "suspended", !.start = w.start, !.end = w.end],
              yielded |-> TRUE, window |-> w]

----------------------------------------------------------------------------
(* services/plan_parser_service.py: tolerant parsing of the backend's text *)

\* A response text is a sequence of tokens: each bracket character is a token
\* of its own, and every other token is a piece of text holding no bracket, so
\* find/rfind of a bracket and the slice between them act on token positions
\* exactly as they act on character positions.

\* text.find(c): 0-based index of the first occurrence, -1 when there is none
Find(text, c) ==
    LET hits == {i \in 1..Len(text) : text[i] = c}
    IN  IF hits = {} THEN -1 ELSE (CHOOSE i \in hits : \A j \in hits : i <= j) - 1

\* _extract_json_candidate
extract_json_candidate(text) ==
    IF text = <<>> THEN NoneStr
    ELSE LET start0    == Find(text, "[")
             alt_start == Find(text, "{")
             start     == IF start0 = -1 /\ alt_start # -1 THEN alt_start
                          ELSE IF start0 # -1 /\ alt_start # -1 THEN Min(start0, alt_start)
                          ELSE start0
             end       == Max(RFind(text, "}"), RFind(text, "]"))
         IN  IF start = -1 THEN NoneStr
             ELSE IF end = -1 \/ end <= start THEN NoneStr
             ELSE Some(Slice(text, start, end + 1))

K_descripcion == <<"d", "e", "s", "c", "r", "i", "p", "c", "i", "o", "n">>
K_area        == <<"a", "r", "e", "a">>
K_grado       == <<"g", "r", "a", "d", "o">>
K_metadata    == <<"m", "e", "t", "a", "d", "a", "t", "a">>
K_class_ideas == <<"c", "l", "a", "s", "s", "_", "i", "d", "e", "a", "s">>
K_ideas       == <<"i", "d", "e", "a", "s">>
K_actividades == <<"a", "c", "t", "i", "v", "i", "d", "a", "d", "e", "s">>
K_title       == <<"t", "i", "t", "l", "e">>
K_titulo      == <<"t", "i", "t", "u", "l", "o">>
K_nombre      == <<"n", "o", "m", "b", "r", "e">>
K_period      == <<"p", "e", "r", "i", "o", "d">>
K_periodo     == <<"p", "e", "r", "i", "o", "d", "o">>
K_items       == <<"i", "t", "e", "m", "s">>
K_plan_items  == <<"p", "l", "a", "n", "_", "i", "t", "e", "m", "s">>
K_data        == <<"d", "a", "t", "a">>
K_fragment_index == <<"f", "r", "a", "g", "m", "e", "n", "t", "_", "i", "n", "d", "e", "x">>
K_source      == <<"s", "o", "u", "r", "c", "e">>
S_llm_plan_parser == <<"l", "l", "m", "_", "p", "l", "a", "n", "_", "p", "a", "r", "s", "e", "r">>
S_General     == <<"G", "e", "n", "e", "r", "a", "l">>
S_Lengua      == <<"L", "e", "n", "g", "u", "a">>
S_Leer        == <<"L", "e", "e", "r">>
S_Sumar_pad   == <<" ", "S", "u", "m", "a", "r", " ">>
S_Sumar       == <<"S", "u", "m", "a", "r">>
S_Suma        == <<"S", "u", "m", "a">>

\* The JSON objects the modelled backend can put in a response: the text between
\* the braces (one token) and the dict json.loads builds from it
ItemGood ==
    [text  |-> "\"grado\": \"3\", \"area\": \"Lengua\", \"descripcion\": \"Leer\"",
     value |-> JDict(<<JPair(K_grado, JStr(<<"3">>)), JPair(K_area, JStr(S_Lengua)),
                       JPair(K_descripcion, JStr(S_Leer))>>)]
ItemLoose ==
    [text  |-> "\"grado\": 3, \"area\": null, \"descripcion\": \" Sumar \", \"titulo\": \"Suma\"",
     value |-> JDict(<<JPair(K_grado, JNum(3)), JPair(K_area, JNull),
                       JPair(K_descripcion, JStr(S_Sumar_pad)), JPair(K_titulo, JStr(S_Suma))>>)]
ItemBlankDescription ==
    [text  |-> "\"area\": \"Lengua\", \"descripcion\": \"  \"",
     value |-> JDict(<<JPair(K_area, JStr(S_Lengua)), JPair(K_descripcion, JStr(<<" ", " ">>))>>)]
ItemNullDescription ==
    [text  |-> "\"descripcion\": null",
     value |-> JDict(<<JPair(K_descripcion, JNull)>>)]
ItemNumberDescription ==
    [text  |-> "\"area\": \"Lengua\", \"descripcion\": 5",
     value |-> JDict(<<JPair(K_area, JStr(S_Lengua)), JPair(K_descripcion, JNum(5))>>)]
ItemListArea ==
    [text  |-> "\"area\": [\"Lengua\"], \"descripcion\": \"Leer\"",
     value |-> JDict(<<JPair(K_area, JList(<<JStr(S_Lengua)>>)), JPair(K_descripcion, JStr(S_Leer))>>)]
ItemObjectGrade ==
    [text  |-> "\"grado\": {\"n\": 3}, \"descripcion\": \"Leer\"",
     value |-> JDict(<<JPair(K_grado, JDict(<<JPair(<<"n">>, JNum(3))>>)),
                       JPair(K_descripcion, JStr(S_Leer))>>)]
ItemBlankArea ==
    [text  |-> "\"area\": \"  \", \"descripcion\": \"Leer\"",
     value |-> JDict(<<JPair(K_area, JStr(<<" ", " ">>)), JPair(K_descripcion, JStr(S_Leer))>>)]
ItemNoDescription ==
    [text  |-> "\"area\": \"Lengua\"",
     value |-> JDict(<<JPair(K_area, JStr(S_Lengua))>>)]

ItemDocs ==
    {ItemGood, ItemLoose, ItemBlankDescription, ItemNullDescription,
     ItemNumberDescription, ItemListArea, ItemObjectGrade, ItemBlankArea, ItemNoDescription}

\* "{...}" as tokens
Braces(item) == <<"{", item.text, "}">>

\* The documents json.loads accepts among the candidates the modelled responses
\* can produce; it raises JSONDecodeError on every other candidate
JsonDocs ==
    {[text |-> <<"[", "]">>, value |-> JList(<<>>)]}
    \cup {[text |-> <<"[">> \o Braces(d) \o <<"]">>, value |-> JList(<<d.value>>)] : d \in ItemDocs}
    \cup {[text |-> Braces(d), value |-> d.value] : d \in ItemDocs}
    \cup {[text  |-> <<"[", "7, ">> \o Braces(ItemGood) \o <<", ">> \o Braces(ItemLoose) \o <<"]">>,
           value |-> JList(<<JNum(7), ItemGood.value, ItemLoose.value>>)]}
    \cup {[text  |-> <<"{", "\"data\": ", "[">> \o Braces(ItemGood) \o <<"]", "}">>,
           value |-> JDict(<<JPair(K_data, JList(<<ItemGood.value>>))>>)]}
    \cup {[text  |-> <<"{", "\"items\": 3, \"plan_items\": ", "[">> \o Braces(ItemLoose) \o <<"]", "}">>,
           value |-> JDict(<<JPair(K_items, JNum(3)),
                             JPair(K_plan_items, JList(<<ItemLoose.value>>))>>)]}
    \cup {[text  |-> <<"{", "\"items\": 3", "}">>,
           value |-> JDict(<<JPair(K_items, JNum(3))>>)]}

\* json.loads(candidate): [ok, value]; ok = FALSE stands for JSONDecodeError
json_loads(candidate) ==
    IF \E d \in JsonDocs : d.text = candidate
    THEN [ok |-> TRUE, value |-> (CHOOSE d \in JsonDocs : d.text = candidate).value]
    ELSE [ok |-> FALSE, value |-> JNull]

IsDict(v) == v.t = "dict"

\* A plausible slip: a dict that holds no list is taken to be the one item.
parse_llm_payload_dict_as_item(raw_text) ==
    LET candidate == extract_json_candidate(raw_text)
        data      == json_loads(candidate.v)
        keys      == <<K_items, K_plan_items, K_data>>
        found     == {i \in 1..3 : Get(data.value, keys[i]).t = "list"}
    IN  IF ~Truthy(candidate) THEN <<>>
        ELSE IF ~data.ok THEN <<>>
        ELSE IF data.value.t = "list" THEN SelectSeq(data.value.items, IsDict)
        ELSE IF data.value.t = "dict" /\ found # {}
        THEN SelectSeq(Get(data.value, keys[CHOOSE i \in found : \A j \in found : i <= j]).items,
                       IsDict)
        ELSE IF data.value.t = "dict" THEN <<data.value>>
        ELSE <<>>

\* _parse_llm_payload
parse_llm_payload(raw_text) ==
    LET candidate == extract_json_candidate(raw_text)
        data      == json_loads(candidate.v)
        keys      == <<K_items, K_plan_items, K_data>>
        found     == {i \in 1..3 : Get(data.value, keys[i]).t = "list"}
    IN  IF ~Truthy(candidate) THEN <<>>
        ELSE IF ~data.ok THEN <<>>                              \* JSONDecodeError
        ELSE IF data.value.t = "list" THEN SelectSeq(data.value.items, IsDict)
        ELSE IF data.value.t = "dict" /\ found # {}
        THEN SelectSeq(Get(data.value, keys[CHOOSE i \in found : \A j \in found : i <= j]).items,
                       IsDict)
        ELSE <<>>

----------------------------------------------------------------------------
(* services/plan_parser_service.py: normalising the items of one window *)

\* _coerce_grade
coerce_grade(value) ==
    IF value.t = "null" THEN NoneStr
    ELSE IF value.t \in {"num", "bool"} THEN Some(IntStr(value.n))
    ELSE LET text == Strip(PyStr(value))
         IN  IF text = <<>> THEN NoneStr ELSE Some(text)

\* the character U+2022 (bullet), spelled out
Bullet == "(bullet)"

\* the class_ideas list of _merge_metadata
class_ideas_of(class_ideas_raw) ==
    IF class_ideas_raw.t = "str"
    THEN LET lines == SelectSeq(SplitLines(class_ideas_raw.s), LAMBDA l : Strip(l) # <<>>)
         IN  [i \in 1..Len(lines) |-> JStr(Strip(StripChars(lines[i], {Bullet, "-", " "})))]
    ELSE IF class_ideas_raw.t = "list"
    THEN LET kept == SelectSeq(class_ideas_raw.items, LAMBDA x : Strip(PyStr(x)) # <<>>)
         IN  [i \in 1..Len(kept) |-> JStr(Strip(PyStr(kept[i])))]
    ELSE <<>>

\* _merge_metadata
merge_metadata(payload, fragment_index) ==
    LET given         == Get(payload, K_metadata)
        user_metadata == IF given.t = "dict" THEN given ELSE JDict(<<>>)
        class_ideas   == class_ideas_of(PyOrV(PyOrV(Get(payload, K_class_ideas),
                                                    Get(payload, K_ideas)),
                                              Get(payload, K_actividades)))
        title         == PyOrV(PyOrV(Get(payload, K_title), Get(payload, K_titulo)),
                               Get(payload, K_nombre))
        period        == PyOrV(Get(payload, K_period), Get(payload, K_periodo))
        m0 == DictSet(DictSet(user_metadata, K_fragment_index, JNum(fragment_index)),
                      K_source, JStr(S_llm_plan_parser))
        m1 == IF class_ideas # <<>> THEN DictSet(m0, K_class_ideas, JList(class_ideas)) ELSE m0
        m2 == IF PyTruthy(title) THEN DictSet(m1, K_title, JStr(Strip(PyStr(title)))) ELSE m1
    IN  IF PyTruthy(period) THEN DictSet(m2, K_period, JStr(Strip(PyStr(period)))) ELSE m2

\* (payload.get(key) or "").strip() raises AttributeError on a truthy non-string
StripRaises(value) == PyTruthy(value) /\ value.t # "str"
StripOf(value) == Strip(IF PyTruthy(value) THEN value.s ELSE <<>>)

\* A plausible slip: the description is tested before it is trimmed, so a
\* blank description passes.
RECURSIVE collect_items_untrimmed_test(_, _, _, _)
collect_items_untrimmed_test(items, out, fragment_index, institution_id) ==
    IF items = <<>> THEN [raised |-> FALSE, out |-> out]
    ELSE LET payload == Head(items)
             d       == Get(payload, K_descripcion)
             a       == Get(payload, K_area)
             grade   == coerce_grade(Get(payload, K_grado))
         IN  IF StripRaises(d) THEN [raised |-> TRUE, out |-> out]
             ELSE IF ~PyTruthy(d)
             THEN collect_items_untrimmed_test(Tail(items), out, fragment_index, institution_id)
             ELSE IF StripRaises(a) THEN [raised |-> TRUE, out |-> out]
             ELSE collect_items_untrimmed_test(
                     Tail(items),
                     Append(out,
                        [grado             |-> grade,
                         grado_normalizado |->
                            IF Truthy(grade)
                            THEN normalize_grade_label(grade, default_grade_aliases, institution_id)
                            ELSE NoneStr,
                         area        |-> Slice(IF StripOf(a) = <<>> THEN S_General ELSE StripOf(a),
                                               0, 255),
                         descripcion |-> StripOf(d),
                         metadata    |-> merge_metadata(payload, fragment_index)]),
                     fragment_index, institution_id)

\* lines 209-228: the for loop over the parsed items of one window, started
\* with the list collected so far; [raised, out]
RECURSIVE collect_items(_, _, _, _)
collect_items(items, out, fragment_index, institution_id) ==
    IF items = <<>> THEN [raised |-> FALSE, out |-> out]
    ELSE LET payload == Head(items)
             d       == Get(payload, K_descripcion)
             a       == Get(payload, K_area)
             grade   == coerce_grade(Get(payload, K_grado))
         IN  IF StripRaises(d) THEN [raised |-> TRUE, out |-> out]            \* line 210
             ELSE IF StripOf(d) = <<>>
             THEN collect_items(Tail(items), out, fragment_index, institution_id)
             ELSE IF StripRaises(a) THEN [raised |-> TRUE, out |-> out]       \* line 213
             ELSE collect_items(
                     Tail(items),
                     Append(out,
                        [grado             |-> grade,
                         grado_normalizado |->
                            IF Truthy(grade)
                            THEN normalize_grade_label(grade, default_grade_aliases, institution_id)
                            ELSE NoneStr,
                         area        |-> Slice(IF StripOf(a) = <<>> THEN S_General ELSE StripOf(a),
                                               0, 255),
                         descripcion |-> StripOf(d),
                         metadata    |-> merge_metadata(payload, fragment_index)]),
                     fragment_index, institution_id)

----------------------------------------------------------------------------
(* services/curriculum_service.py: regular expressions of the segmenter *)

\* One element of a pattern: a character set, optional (min 0) and/or repeated
Cls(S)  == [set |-> S, min |-> 1, many |-> FALSE]
Opt(c)  == [set |-> {c}, min |-> 0, many |-> FALSE]
Ws1     == [set |-> Whitespace, min |-> 1, many |-> TRUE]
Lit(s)  == [i \in 1..Len(s) |-> Cls({s[i]})]

\* whether the pattern matches the text at 1-based position i
RECURSIVE MatchHere(_, _, _)
MatchHere(pat, text, i) ==
    IF pat = <<>> THEN TRUE
    ELSE LET e    == pat[1]
             rest == Tail(pat)
             more == IF e.many THEN <<[e EXCEPT !.min = 0]>> \o rest ELSE rest
         IN  \/ (e.min = 0 /\ MatchHere(rest, text, i))
             \/ (i <= Len(text) /\ text[i] \in e.set /\ MatchHere(more, text, i + 1))

\* re.search(pattern, text, re.IGNORECASE) is not None, for a lower-case pattern
Search(pattern, text) ==
    LET lowered == Lower(text)
    IN  \E i \in 1..(Len(text) + 1) : MatchHere(pattern, lowered, i)

\* drops the leading characters that belong to the set
RECURSIVE DropLeading(_, _)
DropLeading(s, chars) ==
    IF s # <<>> /\ s[1] \in chars THEN DropLeading(Tail(s), chars) ELSE s

\* re.sub(<runs of the set>, " ", s): every maximal run becomes one space
RECURSIVE CollapseRuns(_, _)
CollapseRuns(s, chars) ==
    IF s = <<>> THEN <<>>
    ELSE IF s[1] \in chars THEN <<" ">> \o CollapseRuns(DropLeading(s, chars), chars)
    ELSE <<s[1]>> \o CollapseRuns(Tail(s), chars)

\* \w: letters, digits and the underscore
IsWordChar(c) == IsUpperChar(c) \/ IsLowerChar(c) \/ IsDigitChar(c) \/ c = "_"

\* the characters of s that [\s\W] matches
NonWordChars(s) == {c \in {s[i] : i \in 1..Len(s)} : ~IsWordChar(c)}

\* str.isupper(): some cased character, and no lower-case one
IsUpper(s) ==
    /\ \E i \in 1..Len(s) : IsUpperChar(s[i])
    /\ \A i \in 1..Len(s) : ~IsLowerChar(s[i])

\* the class [\s\d\.\-–—•·] of _clean_heading_prefix
HeadingNoise ==
    Whitespace \cup {DigitChars[i] : i \in 1..10} \cup {".", "-", EnDash, EmDash, Bullet, "·"}

\* _clean_heading_prefix
clean_heading_prefix(text) ==
    IF text = <<>> THEN <<>> ELSE Strip(DropLeading(text, HeadingNoise))

\* the alternatives of grade_regex, in the order of the pattern
GradeWords ==
    <<A_primer, A_primero, A_segundo, A_tercero, A_cuarto, A_quinto, A_sexto,
      A_septimo_acc, A_septimo>>

S_grado == <<"g", "r", "a", "d", "o">>

\* grade_regex.search(text): group(1) of the match, or no match.  The pattern
\* is anchored: optional blanks, a grade word, blanks, "grado"
grade_regex_search(text) ==
    LET body    == DropLeading(text, Whitespace)
        lowered == Lower(body)
        ends    == {e \in 1..Len(body) :
                      \E w \in 1..Len(GradeWords) :
                         LET word == GradeWords[w]
                             n    == Len(word)
                         IN  /\ e >= n + 1 + Len(S_grado)
                             /\ SubSeq(lowered, 1, n) = word
                             /\ \A k \in (n + 1)..(e - Len(S_grado)) : lowered[k] \in Whitespace
                             /\ SubSeq(lowered, e - Len(S_grado) + 1, e) = S_grado}
    IN  IF ends = {} THEN NoneStr
        ELSE Some(SubSeq(body, 1, CHOOSE e \in ends : \A f \in ends : e <= f))

----------------------------------------------------------------------------
(* The area keyword catalog: curriculum_area_keyword *)

KeywordRow(institution_id, label, pattern) ==
    [institution_id |-> institution_id, label |-> label, pattern |-> pattern]

\* pr[aá]cticas?\s+del\s+lenguaje
P_practicas_del_lenguaje ==
    Lit(<<"p", "r">>) \o <<Cls({"a", "á"})>> \o Lit(<<"c", "t", "i", "c", "a">>) \o <<Opt("s")>> \o <<Ws1>> \o Lit(<<"d", "e", "l">>) \o <<Ws1>> \o Lit(<<"l", "e", "n", "g", "u", "a", "j", "e">>)
L_practicas_del_lenguaje ==
    <<"P", "r", "á", "c", "t", "i", "c", "a", "s", " ", "d", "e", "l", " ", "L", "e", "n", "g", "u", "a", "j", "e">>
\* matem[aá]tica
P_matematica ==
    Lit(<<"m", "a", "t", "e", "m">>) \o <<Cls({"a", "á"})>> \o Lit(<<"t", "i", "c", "a">>)
L_matematica ==
    <<"M", "a", "t", "e", "m", "á", "t", "i", "c", "a">>
\* ciencias?\s+naturales?
P_ciencias_naturales ==
    Lit(<<"c", "i", "e", "n", "c", "i", "a">>) \o <<Opt("s")>> \o <<Ws1>> \o Lit(<<"n", "a", "t", "u", "r", "a", "l", "e">>) \o <<Opt("s")>>
L_ciencias_naturales ==
    <<"C", "i", "e", "n", "c", "i", "a", "s", " ", "N", "a", "t", "u", "r", "a", "l", "e", "s">>
\* ciencias?\s+sociales?
P_ciencias_sociales ==
    Lit(<<"c", "i", "e", "n", "c", "i", "a">>) \o <<Opt("s")>> \o <<Ws1>> \o Lit(<<"s", "o", "c", "i", "a", "l", "e">>) \o <<Opt("s")>>
L_ciencias_sociales ==
    <<"C", "i", "e", "n", "c", "i", "a", "s", " ", "S", "o", "c", "i", "a", "l", "e", "s">>
\* educaci[oó]n\s+f[ií]sica
P_educacion_fisica ==
    Lit(<<"e", "d", "u", "c", "a", "c", "i">>) \o <<Cls({"o", "ó"})>> \o Lit(<<"n">>) \o <<Ws1>> \o Lit(<<"f">>) \o <<Cls({"i", "í"})>> \o Lit(<<"s", "i", "c", "a">>)
L_educacion_fisica ==
    <<"E", "d", "u", "c", "a", "c", "i", "ó", "n", " ", "F", "í", "s", "i", "c", "a">>
\* educaci[oó]n\s+tecnol[oó]gica
P_educacion_tecnologica ==
    Lit(<<"e", "d", "u", "c", "a", "c", "i">>) \o <<Cls({"o", "ó"})>> \o Lit(<<"n">>) \o <<Ws1>> \o Lit(<<"t", "e", "c", "n", "o", "l">>) \o <<Cls({"o", "ó"})>> \o Lit(<<"g", "i", "c", "a">>)
L_educacion_tecnologica ==
    <<"E", "d", "u", "c", "a", "c", "i", "ó", "n", " ", "T", "e", "c", "n", "o", "l", "ó", "g", "i", "c", "a">>
\* formaci[oó]n\s+[eé]tica\s+y\s+ciudadana
P_formacion_etica ==
    Lit(<<"f", "o", "r", "m", "a", "c", "i">>) \o <<Cls({"o", "ó"})>> \o Lit(<<"n">>) \o <<Ws1>> \o <<Cls({"e", "é"})>> \o Lit(<<"t", "i", "c", "a">>) \o <<Ws1>> \o Lit(<<"y">>) \o <<Ws1>> \o Lit(<<"c", "i", "u", "d", "a", "d", "a", "n", "a">>)
L_formacion_etica ==
    <<"F", "o", "r", "m", "a", "c", "i", "ó", "n", " ", "É", "t", "i", "c", "a", " ", "y", " ", "C", "i", "u", "d", "a", "d", "a", "n", "a">>
\* inform[aá]tica
P_informatica ==
    Lit(<<"i", "n", "f", "o", "r", "m">>) \o <<Cls({"a", "á"})>> \o Lit(<<"t", "i", "c", "a">>)
L_informatica ==
    <<"I", "n", "f", "o", "r", "m", "á", "t", "i", "c", "a">>
\* artes?
P_artes ==
    Lit(<<"a", "r", "t", "e">>) \o <<Opt("s")>>
L_artes ==
    <<"A", "r", "t", "e", "s">>
\* m[uú]sica
P_musica ==
    Lit(<<"m">>) \o <<Cls({"u", "ú"})>> \o Lit(<<"s", "i", "c", "a">>)
L_musica ==
    <<"M", "ú", "s", "i", "c", "a">>
\* pl[aá]stica
P_plastica ==
    Lit(<<"p", "l">>) \o <<Cls({"a", "á"})>> \o Lit(<<"s", "t", "i", "c", "a">>)
L_plastica ==
    <<"P", "l", "á", "s", "t", "i", "c", "a">>
\* teatro
P_teatro ==
    Lit(<<"t", "e", "a", "t", "r", "o">>)
L_teatro ==
    <<"T", "e", "a", "t", "r", "o">>

default_area_keywords ==
    <<KeywordRow(0, L_practicas_del_lenguaje, P_practicas_del_lenguaje),
      KeywordRow(0, L_matematica, P_matematica),
      KeywordRow(0, L_ciencias_naturales, P_ciencias_naturales),
      KeywordRow(0, L_ciencias_sociales, P_ciencias_sociales),
      KeywordRow(0, L_educacion_fisica, P_educacion_fisica),
      KeywordRow(0, L_educacion_tecnologica, P_educacion_tecnologica),
      KeywordRow(0, L_formacion_etica, P_formacion_etica),
      KeywordRow(0, L_informatica, P_informatica),
      KeywordRow(0, L_artes, P_artes),
      KeywordRow(0, L_musica, P_musica),
      KeywordRow(0, L_plastica, P_plastica),
      KeywordRow(0, L_teatro, P_teatro)>>

\* _area_keyword_list: the global rows, then the tenant's rows
area_keyword_list(rows, institution_id) ==
    LET global_rows == SelectSeq(rows, LAMBDA r : r.institution_id = 0)
        inst_rows   == SelectSeq(rows, LAMBDA r : r.institution_id = institution_id)
    IN  IF institution_id # 0 THEN global_rows \o inst_rows ELSE global_rows

----------------------------------------------------------------------------
(* services/curriculum_service.py: _segment_text and its helpers *)

\* _looks_like_area_heading
looks_like_area_heading(text, rows, institution_id) ==
    IF Len(text) < 3 \/ Len(text) > 80 THEN FALSE
    ELSE LET normalized == Strip(CollapseRuns(text, NonWordChars(text)))
             patterns   == area_keyword_list(rows, institution_id)
         IN  \/ IsUpper(normalized)
             \/ \E k \in 1..Len(patterns) : Search(patterns[k].pattern, text)

\* _normalize_area_name: the label of the first row whose pattern matches
normalize_area_name(text, rows, institution_id) ==
    LET patterns == area_keyword_list(rows, institution_id)
        hits     == {k \in 1..Len(patterns) : Search(patterns[k].pattern, text)}
    IN  IF hits = {} THEN NoneStr
        ELSE Some(patterns[CHOOSE k \in hits : \A j \in hits : k <= j].label)

\* _fallback_area_label
fallback_area_label(text) ==
    LET stripped == CollapseRuns(Strip(StripChars(Strip(text), {":", ".", "-"})), Whitespace)
    IN  IF Len(stripped) < 3 THEN NoneStr ELSE Some(Slice(stripped, 0, 80))

\* the name _split_by_area gives the line at 0-based index idx, or none when
\* the line is no boundary
area_name_of(line, rows, institution_id) ==
    LET clean           == Strip(line)
        normalized_line == clean_heading_prefix(clean)
        by_keyword      == normalize_area_name(normalized_line, rows, institution_id)
        area_name       == IF Truthy(by_keyword) THEN by_keyword
                           ELSE fallback_area_label(normalized_line)
    IN  IF clean = <<>> THEN NoneStr
        ELSE IF ~looks_like_area_heading(normalized_line, rows, institution_id) THEN NoneStr
        ELSE IF Truthy(area_name) THEN area_name
        ELSE NoneStr

\* the ascending sequence of the members of a finite set of integers
RECURSIVE Ascending(_)
Ascending(S) ==
    IF S = {} THEN <<>>
    ELSE LET least == CHOOSE x \in S : \A y \in S : x <= y
         IN  <<least>> \o Ascending(S \ {least})

\* every area segment runs to the end of the slice
split_by_area_open_ended(lines, absolute_start, rows, institution_id) ==
    LET indices == Ascending({idx \in 0..(Len(lines) - 1) :
                                 Truthy(area_name_of(lines[idx + 1], rows, institution_id))})
    IN  [i \in 1..Len(indices) |->
            [area      |-> area_name_of(lines[indices[i] + 1], rows, institution_id).v,
             abs_start |-> absolute_start + indices[i],
             abs_end   |-> absolute_start + Len(lines)]]

\* _split_by_area: (area_name, abs_start, abs_end) per boundary of the slice
split_by_area(lines, absolute_start, rows, institution_id) ==
    LET indices == Ascending({idx \in 0..(Len(lines) - 1) :
                                 Truthy(area_name_of(lines[idx + 1], rows, institution_id))})
    IN  [i \in 1..Len(indices) |->
            [area      |-> area_name_of(lines[indices[i] + 1], rows, institution_id).v,
             abs_start |-> absolute_start + indices[i],
             abs_end   |-> absolute_start +
                             (IF i + 1 <= Len(indices) THEN indices[i + 1] ELSE Len(lines))]]

NewLine == <<"\n">>

\* the text of an area segment left as joined
area_text_untrimmed(lines, start_line, end_line) ==
    Join(NewLine, Slice(lines, start_line, end_line))

\* "\n".join(lines[start_line:end_line]).strip(), line 458
area_text(lines, start_line, end_line) ==
    Strip(Join(NewLine, Slice(lines, start_line, end_line)))

SegmentRecord(grade_label, area, section_title, content_text, start_line, end_line) ==
    [grade_label |-> grade_label, area |-> area, section_title |-> section_title,
     content_text |-> content_text, start_line |-> start_line, end_line |-> end_line]

\* the grade_breaks list: (idx, grade_label, heading) per matching line, or
\* the single (0, None, "General") when no line matches
grade_breaks_of(lines, alias_rows, institution_id) ==
    LET hits  == Ascending({idx \in 0..(Len(lines) - 1) :
                    grade_regex_search(clean_heading_prefix(lines[idx + 1])).some})
        found == [i \in 1..Len(hits) |->
                    [idx         |-> hits[i],
                     grade_label |-> normalize_grade_label(
                                        grade_regex_search(clean_heading_prefix(lines[hits[i] + 1])),
                                        alias_rows, institution_id),
                     heading     |-> Strip(lines[hits[i] + 1])]]
    IN  IF found = <<>>
        THEN <<[idx |-> 0, grade_label |-> NoneStr, heading |-> S_General]>>
        ELSE found

\* the segments one grade slice contributes: lines 438-470
slice_segments(lines, grade_breaks, i, rows, institution_id) ==
    LET start_idx     == grade_breaks[i].idx
        end_idx       == IF i + 1 <= Len(grade_breaks) THEN grade_breaks[i + 1].idx ELSE Len(lines)
        chunk_lines   == Slice(lines, start_idx, end_idx)
        slice_text   == Strip(Join(NewLine, chunk_lines))
        area_segments == split_by_area(chunk_lines, start_idx, rows, institution_id)
        records       == [k \in 1..Len(area_segments) |->
                            SegmentRecord(grade_breaks[i].grade_label,
                                          area_segments[k].area, area_segments[k].area,
                                          area_text(lines, area_segments[k].abs_start,
                                                    area_segments[k].abs_end),
                                          area_segments[k].abs_start, area_segments[k].abs_end)]
    IN  IF slice_text = <<>> THEN <<>>
        ELSE IF area_segments = <<>>
        THEN <<SegmentRecord(grade_breaks[i].grade_label, S_General, grade_breaks[i].heading,
                             slice_text, start_idx, end_idx)>>
        ELSE SelectSeq(records, LAMBDA r : r.content_text # <<>>)

RECURSIVE ConcatSlices(_, _, _, _, _)
ConcatSlices(lines, grade_breaks, i, rows, institution_id) ==
    IF i > Len(grade_breaks) THEN <<>>
    ELSE slice_segments(lines, grade_breaks, i, rows, institution_id)
         \o ConcatSlices(lines, grade_breaks, i + 1, rows, institution_id)

\* _segment_text on the catalogs the database holds
segment_text(raw_text, alias_rows, rows, institution_id) ==
    LET lines == SplitLines(raw_text)
    IN  ConcatSlices(lines, grade_breaks_of(lines, alias_rows, institution_id), 1,
                     rows, institution_id)

\* a pattern the owner's form accepts and re.search cannot compile, "(": the
\* negative min marks the element re.error is raised on
P_unbalanced == <<[set |-> {"("}, min |-> -1, many |-> FALSE]>>
re_error(pattern) == \E k \in 1..Len(pattern) : pattern[k].min < 0
S_re_error == <<"missing ), unterminated subpattern at position 0">>

\* the keyword loops of _looks_like_area_heading and _normalize_area_name
\* raise re.error when they reach a pattern that does not compile before a
\* pattern that matches
keyword_loop_raises(text, rows, institution_id) ==
    LET patterns == area_keyword_list(rows, institution_id)
        bad      == {k \in 1..Len(patterns) : re_error(patterns[k].pattern)}
        hits     == {k \in 1..Len(patterns) \ bad : Search(patterns[k].pattern, text)}
    IN  \E b \in bad : \A h \in hits : b < h

\* _split_by_area raises on this line: the line is not blank and its cleaned
\* form has a length the heading test goes on with
line_raises(line, rows, institution_id) ==
    LET clean           == Strip(line)
        normalized_line == clean_heading_prefix(clean)
    IN  /\ clean # <<>>
        /\ Len(normalized_line) >= 3
        /\ Len(normalized_line) <= 80
        /\ keyword_loop_raises(normalized_line, rows, institution_id)

\* _segment_text raises: the slices run from the first grade break to the
\* last line, and one of their lines makes _split_by_area raise
segment_text_raises(raw_text, alias_rows, rows, institution_id) ==
    LET lines        == SplitLines(raw_text)
        grade_breaks == grade_breaks_of(lines, alias_rows, institution_id)
    IN  \E idx \in grade_breaks[1].idx..(Len(lines) - 1) :
            line_raises(lines[idx + 1], rows, institution_id)

----------------------------------------------------------------------------
(* services/curriculum_service.py: text extraction from an uploaded file *)

\* the outcome of an extraction: the text, or the message of the exception
Extracted(text)    == [ok |-> TRUE, text |-> text, error |-> <<>>]
ExtractFailed(msg) == [ok |-> FALSE, text |-> <<>>, error |-> msg]

\* sub in s, on strings
Contains(s, sub) ==
    \E i \in 0..(Len(s) - Len(sub)) : SubSeq(s, i + 1, i + Len(sub)) = sub

\* re.sub(r"[^\w._-]", "_", filename), line 173
safe_name_of(filename) ==
    [i \in 1..Len(filename) |->
        IF IsWordChar(filename[i]) \/ filename[i] \in {".", "_", "-"}
        THEN filename[i] ELSE "_"]

\* Path(name).suffix: from the last dot on, unless the dot opens or ends the name
PathSuffix(name) ==
    LET i == RFind(name, ".")
    IN  IF 0 < i /\ i < Len(name) - 1 THEN Slice(name, i, Len(name)) ELSE <<>>

S_curriculum == <<"c", "u", "r", "r", "i", "c", "u", "l", "u", "m">>
S_dot_tmp    == <<".", "t", "m", "p">>
S_dot_pdf    == <<".", "p", "d", "f">>
S_dot_txt    == <<".", "t", "x", "t">>
S_dot_text   == <<".", "t", "e", "x", "t">>
S_pdf        == <<"p", "d", "f">>
S_text       == <<"t", "e", "x", "t">>

\* the suffix of the temporary file, lines 172-174
tmp_suffix_of(filename) ==
    LET name   == IF filename # <<>> THEN filename ELSE S_curriculum
        suffix == PathSuffix(safe_name_of(name))
    IN  IF suffix # <<>> THEN suffix ELSE S_dot_tmp

\* a byte no UTF-8 text holds; decode(errors="ignore") drops it
InvalidByte == "(0xFF)"
decode_ignore(bytes) == SelectSeq(bytes, LAMBDA b : b # InvalidByte)

E_no_reader   == <<"Instala 'pdftotext' o el paquete pypdf para leer archivos PDF.">>
E_no_text     == <<"El PDF no contiene texto legible.">>
E_crypto      == <<"No se pudo leer el PDF sin pdftotext: falta la dependencia 'cryptography'. Instala 'cryptography>=3.1' o ejecuta 'pip install pypdf[crypto]'.">>
E_unreadable  == <<"No se pudo leer el PDF sin pdftotext: ">>
E_unsupported == <<"Formato de archivo no soportado. Usa PDF o TXT.">>
S_cryptography == <<"c", "r", "y", "p", "t", "o", "g", "r", "a", "p", "h", "y">>

\* _extract_pdf_text_pure on what pypdf does with the file: reader.installed is
\* PdfReader is not None, reader.raises the message of the exception PdfReader
\* or a page raises, reader.pages what extract_text() returns per page
extract_pdf_text_pure(reader) ==
    LET pieces  == SelectSeq(reader.pages, LAMBDA text : Truthy(text))
        content == Strip(Join(NewLine, [k \in 1..Len(pieces) |-> pieces[k].v]))
    IN  IF ~reader.installed THEN ExtractFailed(E_no_reader)
        ELSE IF reader.raises.some
        THEN IF Contains(Lower(reader.raises.v), S_cryptography)
             THEN ExtractFailed(E_crypto)
             ELSE ExtractFailed(E_unreadable \o reader.raises.v)
        ELSE IF content = <<>> THEN ExtractFailed(E_unreadable \o E_no_text)
        ELSE Extracted(content)

\* _extract_pdf_text on what the pdftotext run gives: tool.found is
\* shutil.which's answer, tool.returncode and tool.stdout the run's result
extract_pdf_text(tool, reader) ==
    IF tool.found /\ tool.returncode = 0 /\ tool.stdout # <<>>
    THEN Extracted(decode_ignore(tool.stdout))
    ELSE extract_pdf_text_pure(reader)

\* _extract_text_from_file on a temporary file with this suffix and content
extract_text_from_file(suffix, mime_type, file) ==
    LET lower == Lower(suffix)
    IN  IF lower = S_dot_pdf \/ Contains(mime_type, S_pdf)
        THEN extract_pdf_text(file.tool, file.reader)
        ELSE IF lower \in {S_dot_txt, S_dot_text} \/ Contains(mime_type, S_text)
        THEN Extracted(decode_ignore(file.bytes))
        ELSE ExtractFailed(E_unsupported)

----------------------------------------------------------------------------
(* Inputs of the AI client *)

S_OpenAI_mixed  == <<"O", "p", "e", "n", "A", "I">>
S_openai_padded == <<" ", "o", "p", "e", "n", "a", "i", " ">>
S_azure         == <<"a", "z", "u", "r", "e">>
S_blank         == <<" ", " ">>
S_key           == <<"s", "k">>
S_hello         == <<"h", "i">>

ProviderOverrides ==
    {NoneStr, Some(<<>>), Some(S_blank), Some(S_openai_padded), Some(S_OpenAI_mixed),
     Some(S_heuristic), Some(S_azure)}

Environs ==
    [AI_PROVIDER    : {NoneStr, Some(<<>>), Some(S_OpenAI_mixed), Some(S_heuristic), Some(S_azure)},
     AI_API_KEY     : {NoneStr, Some(S_key)},
     OPENAI_API_KEY : {NoneStr, Some(<<>>), Some(S_key)},
     AI_MODEL       : {NoneStr},
     AI_TEMPERATURE : {NoneStr},
     AI_MAX_TOKENS  : {NoneStr},
     AI_TIMEOUT     : {NoneStr}]

\* values of the numeric knobs: unset, empty, not a number, numbers
S_abc     == <<"a", "b", "c">>
S_half    == <<"0", ".", "5", "0">>
S_twelve  == <<" ", "1", "2">>
KnobValues == {NoneStr, Some(<<>>), Some(S_abc), Some(S_half), Some(S_twelve)}

KnobEnvirons ==
    [AI_PROVIDER    : {NoneStr},
     AI_API_KEY     : {NoneStr},
     OPENAI_API_KEY : {NoneStr},
     AI_MODEL       : {NoneStr},
     AI_TEMPERATURE : KnobValues,
     AI_MAX_TOKENS  : KnobValues,
     AI_TIMEOUT     : KnobValues]

Contexts ==
    [scope      : {"absent", "str", "null"},
     metrics    : {"absent", "dict"},
     highlights : {"absent", "list"},
     followups  : {"absent"},
     learning   : {"absent", "dict", "list"}]

NetOutcomes ==
    {NetFailure("HTTPError"), NetFailure("URLError"), NetFailure("timeout")}
    \cup {NetBody(FALSE, FALSE, ContentAbsent, NoneStr)}
    \cup {NetBody(TRUE, FALSE, ContentAbsent, NoneStr)}
    \cup {NetBody(TRUE, TRUE, c, NoneStr) :
            c \in {ContentAbsent, ContentNull, ContentStr(<<>>), ContentStr(S_blank),
                   ContentStr(S_hello)}}

\* clock readings: two within one minute, one in the next
ClockReadings == {0, 59, 60}

\* Bound on the generate calls of one client when calls are compared
MaxRepeats == 2

\* contexts of repeated calls: the extraction context (none of the five keys),
\* a report context, and one on which the heuristic raises
RepeatContexts ==
    {[k \in ContextKeys |-> "absent"],
     [scope |-> "str", metrics |-> "dict", highlights |-> "list",
      followups |-> "absent", learning |-> "dict"],
     [scope |-> "null", metrics |-> "absent", highlights |-> "absent",
      followups |-> "absent", learning |-> "absent"]}

\* environments of a client that is compared over several calls: no
\* credential, or a credential with the provider left to the default
RepeatEnvirons ==
    [AI_PROVIDER    : {NoneStr, Some(S_heuristic)},
     AI_API_KEY     : {NoneStr, Some(S_key)},
     OPENAI_API_KEY : {NoneStr},
     AI_MODEL       : {NoneStr},
     AI_TEMPERATURE : {NoneStr},
     AI_MAX_TOKENS  : {NoneStr},
     AI_TIMEOUT     : {NoneStr}]

NoCall == [context |-> [k \in ContextKeys |-> "absent"], net |-> NetNotUsed, now |-> 0]
NoOut  == [status |-> "none", result |-> NoResult]

----------------------------------------------------------------------------
(* Actions of the AI client *)

\* AIClient(provider_override=..., model_override=...)
Construct ==
    /\ ~client.constructed
    /\ ~client.raised
    /\ \E provider_override \in ProviderOverrides :
         client' = NewAIClient(environ, provider_override, NoneStr)
    /\ UNCHANGED <<environ, ai_call, ai_out, ai_calls>>
    /\ UNCHANGED exceptAi

\* client.generate(prompt, context); the clock reading and the network outcome
\* are chosen by the world, the latter only when the networked path is taken
Generate(Cs, Readings, Limit) ==
    /\ client.constructed
    /\ ai_calls < Limit
    /\ ai_calls' = ai_calls + 1
    /\ \E context \in Cs, now \in Readings :
       \E net \in (IF UsesNetwork(client) THEN NetOutcomes ELSE {NetNotUsed}) :
         /\ ai_call' = [context |-> context, net |-> net, now |-> now]
         /\ ai_out' = generate(client, context, net, now)
    /\ UNCHANGED <<environ, client>>
    /\ UNCHANGED exceptAi

----------------------------------------------------------------------------
(* Extraction runs: parse_plan_with_llm / persist_plan_document *)

\* what client.generate did for one window: it raised, or returned a dict
\* whose "text" is the token sequence
GenerateRaised == [raised |-> TRUE, text |-> <<>>]
GenerateText(text) == [raised |-> FALSE, text |-> text]

NoArgs == [entry |-> "", text |-> <<>>, document_text |-> <<>>, chunk_size |-> 0,
           institution_id |-> 0, plan_document_id |-> 0, reset_previous |-> FALSE]

\* PlanItem as _persist_plan_items constructs it, lines 248-257
PlanItem(plan_id, plan_document_id, payload) ==
    [plan_id |-> plan_id, plan_document_id |-> plan_document_id,
     grado |-> payload.grado, grado_normalizado |-> payload.grado_normalizado,
     area |-> payload.area, descripcion |-> payload.descripcion,
     metadata |-> payload.metadata]

\* _persist_plan_items on the stored rows: the rows afterwards; it returns
\* len(items_payload). plan_document_id = 0: no plan document
persist_plan_items(rows, plan_id, plan_document_id, items_payload, delete_existing) ==
    LET deleted(r) == /\ r.plan_id = plan_id
                      /\ plan_document_id # 0 => r.plan_document_id = plan_document_id
        kept       == IF delete_existing THEN SelectSeq(rows, LAMBDA r : ~deleted(r)) ELSE rows
    IN  kept \o [k \in 1..Len(items_payload) |->
                    PlanItem(plan_id, plan_document_id, items_payload[k])]

\* parse_plan_with_llm(plan, chunk_size=..., reset_previous=...): lines 127-137
\* and 187-189
ParsePlanWithLlm(Texts, Sizes, Resets) ==
    /\ ex_pc = "idle"
    /\ \E contenido_bruto \in Texts, chunk_size \in Sizes, reset_previous \in Resets :
         LET text == Strip(contenido_bruto)
         IN  /\ ex_args' = [entry |-> "parse_plan_with_llm", text |-> contenido_bruto,
                            document_text |-> <<>>, chunk_size |-> chunk_size,
                            institution_id |-> 1, plan_document_id |-> 0,
                            reset_previous |-> reset_previous]
             /\ IF text = <<>>
                THEN /\ ex_pc' = "done"                               \* return 0
                     /\ gen' = NoGenerator
                ELSE /\ ex_pc' = "loop"
                     /\ gen' = chunk_text(text, max_chars_for(chunk_size), OVERLAP)
    /\ ex_return' = 0
    /\ UNCHANGED <<ex_log, collected, gen_calls, ex_raised_in, plan_items>>
    /\ UNCHANGED exceptEx

\* persist_plan_document(raw_text=..., plan_document=...) for plan document 1
\* of the plan: lines 85-94 and 187-189
PersistPlanDocument(Texts, DocumentTexts) ==
    /\ ex_pc = "idle"
    /\ \E raw_text \in Texts, document_text \in DocumentTexts :
         LET text == Strip(IF raw_text # <<>> THEN raw_text ELSE document_text)
         IN  /\ ex_args' = [entry |-> "persist_plan_document", text |-> raw_text,
                            document_text |-> document_text, chunk_size |-> 0,
                            institution_id |-> 1, plan_document_id |-> 1,
                            reset_previous |-> FALSE]
             /\ IF text = <<>>
                THEN /\ ex_pc' = "raised"                             \* ValueError
                     /\ ex_raised_in' = "persist_plan_document"
                     /\ gen' = NoGenerator
                ELSE /\ ex_pc' = "loop"
                     /\ ex_raised_in' = ""
                     /\ gen' = chunk_text(text, max_chars_for(0), OVERLAP)
    /\ ex_return' = 0
    /\ UNCHANGED <<ex_log, collected, gen_calls, plan_items>>
    /\ UNCHANGED exceptEx

\* One iteration of the for loop of _collect_llm_items: the generator yields a
\* window, generate is called once for it, the text is parsed and its items
\* are appended
CollectFragment(Outcomes) ==
    /\ ex_pc = "loop"
    /\ chunk_text_next(gen).yielded
    /\ \E outcome \in Outcomes :
         LET step == chunk_text_next(gen)
             fragment_index == Len(ex_log)
             items == parse_llm_payload(outcome.text)
             done  == collect_items(items, collected, fragment_index, ex_args.institution_id)
         IN  /\ gen' = step.gen
             /\ gen_calls' = gen_calls + 1
             /\ ex_log' = Append(ex_log, [window |-> step.window, outcome |-> outcome])
             /\ IF outcome.raised
                THEN UNCHANGED <<ex_pc, collected, ex_raised_in>>     \* except: continue
                ELSE /\ collected' = done.out
                     /\ ex_pc' = IF done.raised THEN "raised" ELSE "loop"
                     /\ ex_raised_in' = IF done.raised THEN "_collect_llm_items" ELSE ""
    /\ UNCHANGED <<ex_args, ex_return, plan_items>>
    /\ UNCHANGED exceptEx

\* The generator is exhausted: _collect_llm_items returns, _persist_plan_items
\* stores the items for plan 1 (delete_existing is True in persist_plan_document
\* and reset_previous in parse_plan_with_llm) and the entry point returns their
\* number
CollectReturn ==
    /\ ex_pc = "loop"
    /\ ~chunk_text_next(gen).yielded
    /\ gen' = chunk_text_next(gen).gen
    /\ ex_pc' = "done"
    /\ ex_return' = Len(collected)
    /\ plan_items' = persist_plan_items(plan_items, 1, ex_args.plan_document_id, collected,
                                        \/ ex_args.entry = "persist_plan_document"
                                        \/ ex_args.reset_previous)
    /\ UNCHANGED <<ex_args, ex_log, collected, gen_calls, ex_raised_in>>
    /\ UNCHANGED exceptEx

----------------------------------------------------------------------------
(* Inputs of the extraction runs *)

\* the sequences over S of length at most n
SeqsUpTo(S, n) == UNION {[1..k -> S] : k \in 0..n}

TextAlphabet == {"a", " ", "\n"}

\* Chunking: longest text and largest explicit chunk_size
ChunkMaxLen == 6
ChunkMaxSize == 5

ChunkTexts == SeqsUpTo(TextAlphabet, ChunkMaxLen)
ChunkSizes == 0..ChunkMaxSize

\* Termination of the loop: longest text and largest explicit chunk_size
LiveMaxLen == 4
LiveMaxSize == 3

LiveTexts == SeqsUpTo(TextAlphabet, LiveMaxLen)
LiveSizes == 0..LiveMaxSize

\* responses that add nothing to the collected list
QuietOutcomes == {GenerateRaised, GenerateText(<<"Lo siento, no encuentro contenidos.">>)}

----------------------------------------------------------------------------
(* Inputs of the item extraction *)

\* Extraction: longest text and largest explicit chunk_size
ExtractMaxLen == 2
ExtractMaxSize == 1

ExtractTexts == SeqsUpTo(TextAlphabet, ExtractMaxLen)
ExtractSizes == 0..ExtractMaxSize

T_empty        == <<>>
T_prose        == <<"Lo siento, no encuentro contenidos.">>
T_reversed     == <<"]", " y luego ", "[">>
T_invalid_json == <<"[", "{", "grado: 1", "]">>
T_cited_prefix == <<"Ver ", "[", "1", "]", ": ", "[">> \o Braces(ItemGood) \o <<"]">>
T_scalar_dict  == <<"{", "\"items\": 3", "}">>
T_bare_item    == Braces(ItemGood)
T_empty_list   == <<"[", "]">>
T_good_list    == <<"[">> \o Braces(ItemGood) \o <<"]">>
\* a fenced answer; (fence) spells the three-backtick marker
T_fenced       == <<"(fence)json ", "[">> \o Braces(ItemGood) \o <<"]", " (fence)">>
T_data_dict    == <<"{", "\"data\": ", "[">> \o Braces(ItemGood) \o <<"]", "}">>
T_plan_items   == <<"{", "\"items\": 3, \"plan_items\": ", "[">> \o Braces(ItemLoose) \o <<"]", "}">>
T_mixed_list   == <<"[", "7, ">> \o Braces(ItemGood) \o <<", ">> \o Braces(ItemLoose) \o <<"]">>

ResponseTexts ==
    {T_empty, T_prose, T_reversed, T_invalid_json, T_cited_prefix, T_scalar_dict,
     T_bare_item, T_empty_list, T_fenced, T_data_dict, T_plan_items, T_mixed_list}
    \cup {<<"[">> \o Braces(d) \o <<"]">> : d \in ItemDocs}

AllOutcomes == {GenerateRaised} \cup {GenerateText(t) : t \in ResponseTexts}

\* the context _collect_llm_items passes to generate, lines 198-201: it holds
\* fragment_index and plan_document_id and none of the keys the heuristic reads
ExtractionContext == [k \in ContextKeys |-> "absent"]

\* what the provider does during a run: it fails, or it answers with one item
RunNetOutcomes ==
    {NetFailure("URLError"), NetFailure("timeout"),
     NetBody(TRUE, TRUE, ContentStr(T_good_list), NoneStr)}

\* what client.generate of this client can do for one window, with the
\* provider that served it
ClientOutcomes(self) ==
    {[raised   |-> generate(self, ExtractionContext, net, now).status = "raised",
      text     |-> generate(self, ExtractionContext, net, now).result.text,
      provider |-> generate(self, ExtractionContext, net, now).result.provider] :
        net \in (IF UsesNetwork(self) THEN RunNetOutcomes ELSE {NetNotUsed}),
        now \in {0, 60}}

\* what earlier runs stored: nothing; the items of a run of parse_plan_with_llm
\* on plan 1; the items of runs of persist_plan_document on plan 1 for its
\* documents 1 and 2 and on plan 2
EarlierPayload == collect_items(parse_llm_payload(T_good_list), <<>>, 0, 1).out
EarlierRows(plan_id, plan_document_id) ==
    persist_plan_items(<<>>, plan_id, plan_document_id, EarlierPayload, TRUE)
EarlierTables ==
    {<<>>, EarlierRows(1, 0), EarlierRows(1, 1) \o EarlierRows(1, 2) \o EarlierRows(2, 1)}

----------------------------------------------------------------------------
(* Inputs of the segmentation *)

\* the pattern a tenant added to the catalog: "lengua" labelled "Lengua"
P_lengua == Lit(<<"l", "e", "n", "g", "u", "a">>)

\* the seeded rows and the row of tenant 1
AreaKeywordRows == default_area_keywords \o <<KeywordRow(1, S_Lengua, P_lengua)>>

\* the lines documents are made of
Line_blank   == <<>>
Line_body    == <<"s", "u", "m", "a">>
Line_grade   == <<"1", ".", " ", "S", "e", "x", "t", "o", " ", "g", "r", "a", "d", "o">>
Line_keyword == <<"-", " ", "M", "ú", "s", "i", "c", "a">>
Line_upper   == <<"E", "J", "E", " ", "1">>
Line_numeral == <<"I", "I", ".">>
Line_tenant  == <<"L", "e", "n", "g", "u", "a">>

SegLines ==
    {Line_blank, Line_body, Line_grade, Line_keyword, Line_upper, Line_numeral, Line_tenant}

\* Bound on the number of lines of a document
SegMaxLines == 3

\* the documents: up to SegMaxLines lines joined by line feeds
SegTexts == {Join(NewLine, ls) : ls \in SeqsUpTo(SegLines, SegMaxLines)}

\* no tenant (None) and tenant 1
SegInstitutions == {0, 1}

----------------------------------------------------------------------------
(* Inputs of the scenario documents: a grade heading, two area blocks *)

A_tercer == <<"t", "e", "r", "c", "e", "r">>

\* the first letter in upper case, as a heading is written
Capitalize(s) == IF s = <<>> THEN s ELSE <<UpperChar(s[1])>> \o Tail(s)

\* "Tercer grado" and the heading of every word of the grade pattern
ScenarioHeadings ==
    {Capitalize(w) \o <<" ">> \o S_grado :
        w \in {GradeWords[i] : i \in 1..Len(GradeWords)} \cup {A_tercer}}

Line_MATEMATICA == <<"M", "A", "T", "E", "M", "Á", "T", "I", "C", "A">>
Line_Numeros    == <<"N", "Ú", "M", "E", "R", "O", "S">>
Line_sumar      == <<"S", "u", "m", "a", "r", " ", "y", " ", "r", "e", "s", "t", "a", "r", " ", "h", "a", "s", "t", "a", " ", "1", "0", "0", ".">>
Line_familias   == <<"L", "a", "s", " ", "f", "a", "m", "i", "l", "i", "a", "s", " ", "y", " ", "s", "u", "s", " ", "c", "o", "s", "t", "u", "m", "b", "r", "e", "s", ".">>
Line_ciencia    == <<"C", "i", "e", "n", "c", "i", "a", " ", "s", "o", "c", "i", "a", "l">>

ScenarioFirstAreas  == {Line_MATEMATICA, L_matematica, Line_Numeros}
ScenarioSecondAreas == {L_ciencias_sociales, Line_ciencia, L_teatro}

\* heading, area, a sentence, a blank line, area, a sentence
ScenarioText(heading, first_area, second_area) ==
    Join(NewLine, <<heading, first_area, Line_sumar, <<>>, second_area, Line_familias>>)

ScenarioTexts ==
    {ScenarioText(h, a, b) : h \in ScenarioHeadings, a \in ScenarioFirstAreas,
                             b \in ScenarioSecondAreas}

----------------------------------------------------------------------------
(* Segmentation: CurriculumService._segment_text(raw_text, institution_id) *)

NoSegArgs == [raw_text |-> <<>>, institution_id |-> 0]

\* one call of _segment_text on the document at hand; the catalogs are the
\* rows the database holds
SegmentText ==
    /\ seg_pc = "idle"
    /\ seg_out' = segment_text(seg_args.raw_text, default_grade_aliases, AreaKeywordRows,
                               seg_args.institution_id)
    /\ seg_pc' = "done"
    /\ UNCHANGED seg_args
    /\ UNCHANGED exceptSeg

----------------------------------------------------------------------------
(* Inputs of the catalogs *)

A_sala == <<"s", "a", "l", "a">>

\* Bound on the catalog writes of one behaviour
MaxWrites == 1

\* the tenants that look catalogs up: none (None) and tenant 1
Tenants == {0, 1}

\* the seeded global aliases, and two rows of tenant 1: "segundo", which a
\* global row has too, and "sala", which only the tenant has
SeededAliasTable ==
    default_grade_aliases \o <<AliasRow(1, A_segundo, <<"8">>), AliasRow(1, A_sala, <<"5">>)>>

\* the seeded global prompt; with the prompt of tenant 1, active or not
G_prompt == <<"prompt global">>
T_prompt == <<"prompt del colegio">>
N_prompt == <<" prompt nuevo ">>

PromptTables ==
    {<<>>,
     <<PromptRow(0, PROMPT_CONTEXT, G_prompt, TRUE)>>,
     <<PromptRow(0, PROMPT_CONTEXT, G_prompt, TRUE), PromptRow(1, PROMPT_CONTEXT, T_prompt, TRUE)>>,
     <<PromptRow(0, "other", G_prompt, TRUE), PromptRow(1, PROMPT_CONTEXT, T_prompt, FALSE)>>}

\* what the owner types into the alias form: alias and normalized value
FormAliases == {<<" ">> \o Capitalize(A_tercer), <<" ">>}
FormValues  == {<<"3", " ">>}

\* the labels that are normalized
LookupLabels == {A_tercer, A_sala, A_segundo}

\* grade labels: each word of the grade-heading pattern alone and followed by
\* "grado", labels in normalized form, with a degree mark, with an ordinal
\* suffix, with the number last, and a word only tenant 1 knows
GradeLabels ==
    {GradeWords[i] : i \in 1..Len(GradeWords)}
    \cup {GradeWords[i] \o <<" ">> \o S_grado : i \in 1..Len(GradeWords)}
    \cup {<<"3">>, <<"3", "°">>, <<"1", "e", "r", " ">> \o S_grado,
          Capitalize(S_grado) \o <<" ", "4">>, A_sala}

----------------------------------------------------------------------------
(* The owner's catalog handlers (app.py) and the cached lookups *)

Idle == [pc |-> "idle", action |-> "", alias |-> <<>>, value |-> <<>>]
Committed(action, alias, value) ==
    [pc |-> "committed", action |-> action, alias |-> alias, value |-> value]

NoLookup ==
    [kind |-> "none", raw |-> <<>>, institution_id |-> 0, result |-> NoneStr,
     mapped |-> NoneStr, text |-> <<>>, current |-> FALSE]

\* no thread is inside _grade_alias_map
NoPending ==
    [pc |-> "idle", raw |-> <<>>, institution_id |-> 0, alias_map |-> <<>>, writes |-> 0]

\* a write has been committed since the lookup was made
Outdated(l) == [l EXCEPT !.current = FALSE]

\* alias_map.get(key)
MapGet(alias_map, key) ==
    IF \E i \in 1..Len(alias_map) : alias_map[i].key = key
    THEN Some(alias_map[CHOOSE i \in 1..Len(alias_map) : alias_map[i].key = key].value)
    ELSE NoneStr

\* action add_grade_alias up to db.session.commit(): lines 898-910
AddGradeAlias ==
    /\ handler.pc = "idle"
    /\ writes < MaxWrites
    /\ \E form_alias \in FormAliases, form_value \in FormValues :
         LET alias            == Lower(Strip(form_alias))
             normalized_value == Strip(form_value)
         IN  IF alias = <<>> \/ normalized_value = <<>>
             THEN UNCHANGED <<alias_table, handler, lookup, writes>>  \* flash, redirect
             ELSE /\ alias_table' = Append(alias_table, AliasRow(0, alias, normalized_value))
                  /\ handler' = Committed("add_grade_alias", alias, normalized_value)
                  /\ lookup' = Outdated(lookup)
                  /\ writes' = writes + 1
    /\ UNCHANGED <<prompt_table, alias_cache, keyword_cache, prompt_cache>>
    /\ UNCHANGED pending
    /\ UNCHANGED exceptCat

\* action delete_grade_alias up to db.session.commit(): lines 914-920; only a
\* global row is deleted
DeleteGradeAlias ==
    /\ handler.pc = "idle"
    /\ writes < MaxWrites
    /\ \E alias_id \in {i \in 1..Len(alias_table) : alias_table[i].alias \in LookupLabels} :
         LET entry == alias_table[alias_id]
         IN  IF entry.institution_id = 0
             THEN /\ alias_table' = SubSeq(alias_table, 1, alias_id - 1)
                                    \o SubSeq(alias_table, alias_id + 1, Len(alias_table))
                  /\ handler' = Committed("delete_grade_alias", entry.alias, <<>>)
                  /\ lookup' = Outdated(lookup)
                  /\ writes' = writes + 1
             ELSE UNCHANGED <<alias_table, handler, lookup, writes>>  \* flash, redirect
    /\ UNCHANGED <<prompt_table, alias_cache, keyword_cache, prompt_cache>>
    /\ UNCHANGED pending
    /\ UNCHANGED exceptCat

\* action update_curriculum_prompt up to db.session.commit(): lines 871-893
UpdateCurriculumPrompt ==
    /\ handler.pc = "idle"
    /\ writes < MaxWrites
    /\ \E form_text \in {N_prompt, <<" ">>} :
         LET text  == Strip(form_text)
             found == {i \in 1..Len(prompt_table) :
                          /\ prompt_table[i].institution_id = 0
                          /\ prompt_table[i].context = PROMPT_CONTEXT}
         IN  IF text = <<>>
             THEN UNCHANGED <<prompt_table, handler, lookup, writes>> \* flash, redirect
             ELSE /\ prompt_table' =
                        IF found = {}
                        THEN Append(prompt_table, PromptRow(0, PROMPT_CONTEXT, text, TRUE))
                        ELSE [prompt_table EXCEPT
                                ![CHOOSE i \in found : \A j \in found : i <= j].prompt_text = text]
                  /\ handler' = Committed("update_curriculum_prompt", <<>>, text)
                  /\ lookup' = Outdated(lookup)
                  /\ writes' = writes + 1
    /\ UNCHANGED <<alias_table, alias_cache, keyword_cache, prompt_cache>>
    /\ UNCHANGED pending
    /\ UNCHANGED exceptCat

\* CurriculumService.clear_caches(), the handler's call after its commit
ClearCaches ==
    /\ handler.pc = "committed"
    /\ alias_cache' = CacheClear(alias_cache)
    /\ keyword_cache' = CacheClear(keyword_cache)
    /\ prompt_cache' = CacheClear(prompt_cache)
    /\ handler' = [handler EXCEPT !.pc = "idle"]
    /\ UNCHANGED <<alias_table, prompt_table, lookup, writes>>
    /\ UNCHANGED pending
    /\ UNCHANGED exceptCat

\* a request calls normalize_grade_label(raw, institution_id); the alias map
\* comes from the cache or, on a miss, from the table
NormalizeGradeLabel(Labels) ==
    /\ \E institution_id \in Tenants :
         LET computed  == grade_alias_map(alias_table, institution_id)
             alias_map == CacheGet(alias_cache, institution_id, computed)
         IN  /\ alias_cache' = CachePut(alias_cache, institution_id, computed)
             /\ \E raw \in Labels : lookup' = [kind |-> "grade", raw |-> raw, institution_id |-> institution_id,
                           result |-> normalize_on(Some(raw), alias_map),
                           mapped |-> MapGet(alias_map, raw), text |-> <<>>,
                           current |-> handler.pc = "idle"]
    /\ UNCHANGED <<alias_table, prompt_table, keyword_cache, prompt_cache, handler, writes>>
    /\ UNCHANGED pending
    /\ UNCHANGED exceptCat

\* a request calls _prompt_text(PROMPT_CONTEXT, institution_id)
PromptText ==
    /\ \E institution_id \in Tenants :
         LET computed == prompt_text(prompt_table, PROMPT_CONTEXT, institution_id)
         IN  /\ prompt_cache' = CachePut(prompt_cache, institution_id, computed)
             /\ lookup' = [NoLookup EXCEPT !.kind = "prompt", !.institution_id = institution_id,
                              !.text = CacheGet(prompt_cache, institution_id, computed),
                              !.current = handler.pc = "idle"]
    /\ UNCHANGED <<alias_table, prompt_table, alias_cache, keyword_cache, handler, writes>>
    /\ UNCHANGED pending
    /\ UNCHANGED exceptCat

\* a request of tenant 1 calls _area_keyword_list(institution_id); the cached
\* value is kept as the labels of the rows
AreaKeywordList ==
    /\ \E institution_id \in {1} :
         LET rows     == area_keyword_list(AreaKeywordRows, institution_id)
             computed == [i \in 1..Len(rows) |-> rows[i].label]
         IN  /\ keyword_cache' = CachePut(keyword_cache, institution_id, computed)
             /\ lookup' = [NoLookup EXCEPT !.kind = "keywords", !.institution_id = institution_id,
                              !.current = handler.pc = "idle"]
    /\ UNCHANGED <<alias_table, prompt_table, alias_cache, prompt_cache, handler, writes>>
    /\ UNCHANGED pending
    /\ UNCHANGED exceptCat

\* A request thread calls normalize_grade_label(raw, institution_id), misses
\* the cache and, inside _grade_alias_map, has run the queries of lines 65-73
\* while other threads go on; lru_cache holds no lock during the call
ReadAliasRows(Labels) ==
    /\ pending.pc = "idle"
    /\ \E institution_id \in Tenants, raw \in Labels :
         /\ ~alias_cache[institution_id].cached
         /\ pending' = [pc |-> "read", raw |-> raw, institution_id |-> institution_id,
                        alias_map |-> grade_alias_map(alias_table, institution_id),
                        writes |-> writes]
    /\ UNCHANGED <<alias_table, prompt_table, alias_cache, keyword_cache, prompt_cache,
                   handler, lookup, writes>>
    /\ UNCHANGED exceptCat

\* _grade_alias_map returns in that thread: lru_cache stores the map unless the
\* key was stored meanwhile, and normalize_grade_label goes on with the map
\* the thread computed
StoreAliasMap ==
    /\ pending.pc = "read"
    /\ alias_cache' = CachePut(alias_cache, pending.institution_id, pending.alias_map)
    /\ lookup' = [kind |-> "grade", raw |-> pending.raw,
                  institution_id |-> pending.institution_id,
                  result |-> normalize_on(Some(pending.raw), pending.alias_map),
                  mapped |-> MapGet(pending.alias_map, pending.raw), text |-> <<>>,
                  current |-> handler.pc = "idle" /\ pending.writes = writes]
    /\ pending' = NoPending
    /\ UNCHANGED <<alias_table, prompt_table, keyword_cache, prompt_cache, handler, writes>>
    /\ UNCHANGED exceptCat


----------------------------------------------------------------------------
(* services/curriculum_service.py: ingestion, deletion and segment queries *)

\* CurriculumDocument as ingest_from_text and ingest_from_file construct it
CurriculumDocument(id, institution_id) ==
    [id |-> id, institution_id |-> institution_id, status |-> "processing",
     error_message |-> NoneStr, segment_count |-> 0]

NoDocument ==
    [id |-> 0, institution_id |-> 0, status |-> "", error_message |-> NoneStr,
     segment_count |-> 0]

\* CurriculumSegment built from a SegmentRecord, lines 141-149
CurriculumSegment(document_id, payload) ==
    [document_id |-> document_id, grade_label |-> payload.grade_label, area |-> payload.area,
     section_title |-> payload.section_title, content_text |-> payload.content_text,
     start_line |-> payload.start_line, end_line |-> payload.end_line]

\* str(exc) of an exception the construction of a segment raises
E_construct == <<"segment construction failed">>

\* what the _segment_text call of the try block gives: the records, or re.error
segment_text_outcome(raw_text, alias_rows, rows, institution_id) ==
    IF segment_text_raises(raw_text, alias_rows, rows, institution_id)
    THEN [raised |-> TRUE, records |-> <<>>]
    ELSE [raised |-> FALSE,
          records |-> segment_text(raw_text, alias_rows, rows, institution_id)]

\* the try block leaves a failed document as it was created
try_block_keeps_status(document, outcome, fault) ==
    LET rows_of == [k \in 1..Len(outcome.records) |->
                       CurriculumSegment(document.id, outcome.records[k])]
    IN  IF outcome.raised
        THEN [document |-> document, added |-> <<>>]
        ELSE IF fault \in 1..Len(outcome.records)
        THEN [document |-> document, added |-> SubSeq(rows_of, 1, fault - 1)]
        ELSE [document |-> [document EXCEPT !.segment_count = Len(outcome.records),
                                            !.status = "ready"],
              added    |-> rows_of]

\* the try block of both ingest functions, lines 138-157 and 204-223, on what
\* _segment_text gave: the document as it leaves the block and the segments
\* added to the session. fault = k > 0: the construction of the k-th segment
\* raises
try_block(document, outcome, fault) ==
    LET rows_of == [k \in 1..Len(outcome.records) |->
                       CurriculumSegment(document.id, outcome.records[k])]
    IN  IF outcome.raised
        THEN [document |-> [document EXCEPT !.status = "error",
                                            !.error_message = Some(S_re_error)],
              added    |-> <<>>]
        ELSE IF fault \in 1..Len(outcome.records)
        THEN [document |-> [document EXCEPT !.status = "error",
                                            !.error_message = Some(E_construct)],
              added    |-> SubSeq(rows_of, 1, fault - 1)]
        ELSE [document |-> [document EXCEPT !.segment_count = Len(outcome.records),
                                            !.status = "ready"],
              added    |-> rows_of]

\* the area labels of the modelled documents in the order the database sorts them
AreaCollation == <<S_General, L_musica, L_teatro>>
AreaRank(area) == CHOOSE k \in 1..Len(AreaCollation) : AreaCollation[k] = area

\* order_by(document_id, area, start_line): the rows by ascending key
RowBefore(a, b) ==
    \/ a.document_id < b.document_id
    \/ /\ a.document_id = b.document_id
       /\ \/ AreaRank(a.area) < AreaRank(b.area)
          \/ AreaRank(a.area) = AreaRank(b.area) /\ a.start_line < b.start_line

RECURSIVE OrderRows(_, _)
OrderRows(rows, left) ==
    IF left = {} THEN <<>>
    ELSE LET first == CHOOSE i \in left :
                         \A j \in left \ {i} : RowBefore(rows[i], rows[j])
                                               \/ (~RowBefore(rows[j], rows[i]) /\ i < j)
         IN  <<rows[first]>> \o OrderRows(rows, left \ {first})

\* _apply_limit: the first limit_per_doc rows of every document; 0 is no limit
apply_limit(rows, limit_per_doc) ==
    IF limit_per_doc = 0 THEN rows
    ELSE LET earlier(i) == Cardinality({j \in 1..(i - 1) :
                                          rows[j].document_id = rows[i].document_id})
             kept == Ascending({i \in 1..Len(rows) : earlier(i) < limit_per_doc})
         IN  [k \in 1..Len(kept) |-> rows[kept[k]]]

fetch(rows, limit_per_doc) ==
    apply_limit(OrderRows(rows, 1..Len(rows)), limit_per_doc)

\* segments_for_grade over the segment rows the database holds
segments_for_grade(docs, seg_rows, grade_label, limit_per_doc, fallback_to_general) ==
    LET doc_ids  == {docs[i].id : i \in {k \in 1..Len(docs) : docs[k].status = "ready"}}
        base     == SelectSeq(seg_rows, LAMBDA r : r.document_id \in doc_ids)
        specific == fetch(SelectSeq(base, LAMBDA r : r.grade_label = grade_label),
                          limit_per_doc)
        general  == fetch(SelectSeq(base, LAMBDA r : ~r.grade_label.some), limit_per_doc)
    IN  IF doc_ids = {} THEN <<>>
        ELSE IF Truthy(grade_label) /\ specific # <<>> THEN specific
        ELSE IF fallback_to_general /\ general # <<>> THEN general
        ELSE fetch(base, limit_per_doc)

----------------------------------------------------------------------------
(* Inputs of the ingestion *)

\* Bound on the ingest calls of one behaviour
MaxIngests == 2

\* tenant 2 has a keyword row whose pattern does not compile
IngestTenants == {1, 2}
IngestKeywordRows == AreaKeywordRows \o <<KeywordRow(2, S_Lengua, P_unbalanced)>>

Line_segundo_grado == <<"S", "e", "g", "u", "n", "d", "o", " ", "g", "r", "a", "d", "o">>
Line_sexto_grado   == <<"S", "e", "x", "t", "o", " ", "g", "r", "a", "d", "o">>

\* no line; two areas and no grade; a grade with two areas; a grade with no area
T_none    == <<>>
T_areas   == L_musica \o NewLine \o L_teatro
T_segundo == Line_segundo_grado \o NewLine \o L_musica \o NewLine \o L_teatro
T_sexto   == Line_sexto_grado \o NewLine \o Line_body
IngestTexts == {T_none, T_areas, T_segundo, T_sexto}

\* what pdftotext does with the file
NoTool == [found |-> FALSE, returncode |-> 0, stdout |-> <<>>]
Tool(returncode, stdout) == [found |-> TRUE, returncode |-> returncode, stdout |-> stdout]

\* what pypdf does with the file
NoReader == [installed |-> FALSE, raises |-> NoneStr, pages |-> <<>>]
ReaderRaises(message) == [installed |-> TRUE, raises |-> Some(message), pages |-> <<>>]
ReaderPages(pages) == [installed |-> TRUE, raises |-> NoneStr, pages |-> pages]
X_crypto == <<"C", "r", "y", "p", "t", "o", "g", "r", "a", "p", "h", "y", "?">>
X_eof    == <<"E", "O", "F">>
BlankPages == ReaderPages(<<NoneStr, Some(<<>>), Some(<<" ">>)>>)
TextPages  == ReaderPages(<<Some(L_musica), NoneStr, Some(L_teatro \o NewLine)>>)

M_pdf   == <<"a", "p", "p", "l", "i", "c", "a", "t", "i", "o", "n", "/", "p", "d", "f">>
M_plain == <<"t", "e", "x", "t", "/", "p", "l", "a", "i", "n">>
M_word  == <<"a", "p", "p", "l", "i", "c", "a", "t", "i", "o", "n", "/", "m", "s", "w", "o", "r", "d">>
F_pdf    == <<"p", "l", "a", "n", " ", "1", ".", "P", "D", "F">>
F_txt    == <<"p", "l", "a", "n", ".", "t", "x", "t">>
F_docx   == <<"p", "l", "a", "n", ".", "d", "o", "c", "x">>
F_hidden == <<".", "p", "d", "f">>

Upload(filename, mimetype, bytes, tool, reader) ==
    [filename |-> filename, mimetype |-> mimetype,
     file |-> [bytes |-> bytes, tool |-> tool, reader |-> reader]]

\* PDF uploads by name or by type, text uploads, and uploads of neither kind
Uploads ==
    {Upload(F_pdf, <<>>, <<>>, Tool(0, T_sexto), NoReader),
     Upload(F_pdf, <<>>, <<>>, Tool(0, <<" ", "\n">>), TextPages),
     Upload(F_pdf, <<>>, <<>>, Tool(0, <<InvalidByte>>), TextPages),
     Upload(F_pdf, <<>>, <<>>, Tool(0, <<>>), BlankPages),
     Upload(F_pdf, <<>>, <<>>, Tool(1, <<>>), TextPages),
     Upload(F_pdf, <<>>, <<>>, NoTool, NoReader),
     Upload(F_pdf, <<>>, <<>>, NoTool, ReaderRaises(X_crypto)),
     Upload(F_pdf, <<>>, <<>>, NoTool, ReaderRaises(X_eof)),
     Upload(<<>>, M_pdf, <<>>, NoTool, ReaderPages(<<Some(T_segundo)>>)),
     Upload(F_txt, <<>>, T_areas, NoTool, NoReader),
     Upload(<<>>, M_plain, <<InvalidByte>>, NoTool, NoReader),
     Upload(F_docx, M_word, T_areas, NoTool, NoReader),
     Upload(F_hidden, <<>>, <<>>, NoTool, TextPages)}

E_save == <<"upload interrupted">>

QueryGrades == {NoneStr, Some(<<"8">>), Some(<<"6">>)}
QueryLimits == {0, 1}

----------------------------------------------------------------------------
(* Ingestion, deletion and queries as steps *)

\* the frame of an ingest call, kept after the call until another operation
\* runs; seg_query likewise holds a query's result until another operation runs
NoIngest ==
    [pc |-> "idle", op |-> "", text |-> <<>>, document |-> NoDocument,
     raised_in |-> "", error |-> <<>>, pdf |-> FALSE, tmp |-> 0]

NoQuery ==
    [asked |-> FALSE, grade_label |-> NoneStr, fallback_to_general |-> FALSE,
     doc_ids |-> {}, rows |-> <<>>]

AtRest == ingest.pc \in {"idle", "returned", "raised"}

\* ingest_from_text up to the flush: the document exists in status processing
IngestFromText ==
    /\ AtRest
    /\ ingests < MaxIngests
    /\ \E institution_id \in IngestTenants, raw_text \in IngestTexts :
         ingest' = [NoIngest EXCEPT !.pc = "created", !.op = "text", !.text = raw_text,
                       !.document = CurriculumDocument(ingests + 1, institution_id)]
    /\ ingests' = ingests + 1
    /\ seg_query' = NoQuery
    /\ UNCHANGED <<documents, segments, tmp_files>>
    /\ UNCHANGED exceptIng

\* ingest_from_file up to the flush: the upload is saved to a temporary file,
\* the text extracted and the file unlinked; save_fails: file_storage.save
\* raises; unlink_fails: unlink raises OSError, which is logged
IngestFromFile ==
    /\ AtRest
    /\ ingests < MaxIngests
    /\ \E institution_id \in IngestTenants, upload \in Uploads,
          save_fails \in BOOLEAN, unlink_fails \in BOOLEAN :
         \E result \in {extract_text_from_file(tmp_suffix_of(upload.filename),
                                                upload.mimetype, upload.file)} :
            LET tmp    == ingests + 1
                is_pdf == \/ Lower(tmp_suffix_of(upload.filename)) = S_dot_pdf
                          \/ Contains(upload.mimetype, S_pdf)
                call   == [NoIngest EXCEPT !.op = "file", !.tmp = tmp, !.pdf = is_pdf]
            IN  IF save_fails
                THEN /\ ~unlink_fails
                     /\ tmp_files' = {tmp}
                     /\ ingest' = [call EXCEPT !.pc = "raised", !.raised_in = "save",
                                               !.error = E_save, !.pdf = FALSE]
                ELSE /\ tmp_files' = IF unlink_fails THEN {tmp} ELSE {}
                     /\ ingest' =
                           IF result.ok
                           THEN [call EXCEPT !.pc = "created", !.text = result.text,
                                    !.document = CurriculumDocument(ingests + 1, institution_id)]
                           ELSE [call EXCEPT !.pc = "raised", !.raised_in = "extract",
                                    !.error = result.error]
    /\ ingests' = ingests + 1
    /\ seg_query' = NoQuery
    /\ UNCHANGED <<documents, segments>>
    /\ UNCHANGED exceptIng

\* the rest of both ingest functions: the try block, the commit, the return
SegmentAndCommit ==
    /\ ingest.pc = "created"
    /\ \E outcome \in {segment_text_outcome(ingest.text, alias_table, IngestKeywordRows,
                                             ingest.document.institution_id)} :
         \E fault \in 0..Len(outcome.records) :
            \E done \in {try_block(ingest.document, outcome, fault)} :
               /\ ingest' = [ingest EXCEPT !.pc = "returned", !.document = done.document]
               /\ documents' = Append(documents, done.document)
               /\ segments' = segments \o done.added
    /\ UNCHANGED <<tmp_files, seg_query, ingests>>
    /\ UNCHANGED exceptIng

\* delete_document and the caller's commit: the row and, by the cascade of
\* CurriculumDocument.segments, its segments
DeleteDocument ==
    /\ AtRest
    /\ \E i \in 1..Len(documents) :
         /\ documents' = SubSeq(documents, 1, i - 1) \o SubSeq(documents, i + 1, Len(documents))
         /\ segments' = SelectSeq(segments, LAMBDA r : r.document_id # documents[i].id)
    /\ ingest' = NoIngest
    /\ seg_query' = NoQuery
    /\ UNCHANGED <<tmp_files, ingests>>
    /\ UNCHANGED exceptIng

\* segments_for_grade on the stored documents; the frame of the ingest call
\* that returned before is gone
SegmentsForGrade ==
    /\ AtRest
    /\ documents # <<>>
    /\ \E docs \in {documents}, grade_label \in QueryGrades, limit_per_doc \in QueryLimits,
          fallback_to_general \in BOOLEAN :
         seg_query' = [asked |-> TRUE, grade_label |-> grade_label,
                   fallback_to_general |-> fallback_to_general,
                   doc_ids |-> {docs[i].id : i \in 1..Len(docs)},
                   rows |-> segments_for_grade(docs, segments, grade_label, limit_per_doc,
                                               fallback_to_general)]
    /\ ingest' = NoIngest
    /\ UNCHANGED <<documents, segments, tmp_files, ingests>>
    /\ UNCHANGED exceptIng

----------------------------------------------------------------------------
(* Initial states and specifications *)

InitAIClient ==
    /\ client = NoClient
    /\ ai_call = NoCall
    /\ ai_out = NoOut
    /\ ai_calls = 0

\* no extraction run under way
InitRun ==
    /\ ex_pc = "idle"
    /\ ex_args = NoArgs
    /\ gen = NoGenerator
    /\ ex_log = <<>>
    /\ collected = <<>>
    /\ gen_calls = 0
    /\ ex_raised_in = ""
    /\ ex_return = 0

\* no plan item stored
InitEx ==
    /\ InitRun
    /\ plan_items = <<>>

\* the seeded catalogs, nothing cached, no request under way
InitCat ==
    /\ alias_table = SeededAliasTable
    /\ prompt_table = <<PromptRow(0, PROMPT_CONTEXT, G_prompt, TRUE)>>
    /\ alias_cache = [t \in Tenants |-> NoEntry]
    /\ keyword_cache = [t \in Tenants |-> NoEntry]
    /\ prompt_cache = [t \in Tenants |-> NoEntry]
    /\ handler = Idle
    /\ lookup = NoLookup
    /\ writes = 0
    /\ pending = NoPending

\* no document stored, no call under way, no temporary file
InitIng ==
    /\ documents = <<>>
    /\ segments = <<>>
    /\ ingest = NoIngest
    /\ tmp_files = {}
    /\ seg_query = NoQuery
    /\ ingests = 0

\* no document is being segmented
InitSeg ==
    /\ seg_pc = "idle"
    /\ seg_args = NoSegArgs
    /\ seg_out = <<>>

\* no AI_* variable is set
EmptyEnviron ==
    [AI_PROVIDER |-> NoneStr, AI_API_KEY |-> NoneStr,
     OPENAI_API_KEY |-> NoneStr, AI_MODEL |-> NoneStr,
     AI_TEMPERATURE |-> NoneStr, AI_MAX_TOKENS |-> NoneStr, AI_TIMEOUT |-> NoneStr]

\* The AI client under every modelled environment
InitAI ==
    /\ environ \in Environs
    /\ InitAIClient
    /\ InitEx
    /\ InitIng
    /\ InitCat
    /\ InitSeg

NextAI == Construct \/ Generate(Contexts, {0}, MaxCalls)

SpecAI == InitAI /\ [][NextAI]_vars

\* Construction under every modelled setting of the numeric knobs
InitKnobs ==
    /\ environ \in KnobEnvirons
    /\ InitAIClient
    /\ InitEx
    /\ InitIng
    /\ InitCat
    /\ InitSeg

NextKnobs == Construct

SpecKnobs == InitKnobs /\ [][NextKnobs]_vars

\* Several generate calls on one client, at any of the clock readings
InitRepeat ==
    /\ environ \in RepeatEnvirons
    /\ InitAIClient
    /\ InitEx
    /\ InitIng
    /\ InitCat
    /\ InitSeg

NextRepeat == Construct \/ Generate(RepeatContexts, ClockReadings, MaxRepeats)

SpecRepeat == InitRepeat /\ [][NextRepeat]_vars

\* Chunking: every short text and chunk size, responses that add no item
InitChunk ==
    /\ environ = EmptyEnviron
    /\ InitAIClient
    /\ InitEx
    /\ InitIng
    /\ InitCat
    /\ InitSeg

NextChunk ==
    \/ ParsePlanWithLlm(ChunkTexts, ChunkSizes, {FALSE})
    \/ PersistPlanDocument(ChunkTexts, {<<>>, <<"a">>})
    \/ CollectFragment(QuietOutcomes)
    \/ CollectReturn

SpecChunk == InitChunk /\ [][NextChunk]_vars

\* The same runs, with the loop of _collect_llm_items going on: the for loop
\* is straight-line code in one thread, and each generate call returns or
\* raises (the network call carries a timeout)
NextChunkLive ==
    \/ ParsePlanWithLlm(LiveTexts, LiveSizes, {FALSE})
    \/ PersistPlanDocument(LiveTexts, {<<>>, <<"a">>})
    \/ CollectFragment(QuietOutcomes)
    \/ CollectReturn

SpecChunkLive ==
    /\ InitChunk
    /\ [][NextChunkLive]_vars
    /\ WF_vars(CollectFragment(QuietOutcomes))
    /\ WF_vars(CollectReturn)

\* Item extraction: few windows, every modelled response
NextExtract ==
    \/ ParsePlanWithLlm(ExtractTexts, ExtractSizes, {FALSE})
    \/ PersistPlanDocument(ExtractTexts, {<<>>, <<"a">>})
    \/ CollectFragment(AllOutcomes)
    \/ CollectReturn

SpecExtract == InitChunk /\ [][NextExtract]_vars

\* Runs whose windows are answered by a constructed client, with or without a
\* credential
NextOffline ==
    \/ Construct
    \/ (client.constructed /\ ParsePlanWithLlm(ExtractTexts, ExtractSizes, {FALSE}))
    \/ (client.constructed /\ PersistPlanDocument(ExtractTexts, {<<>>, <<"a">>}))
    \/ CollectFragment(ClientOutcomes(client))
    \/ CollectReturn

SpecOffline == InitRepeat /\ [][NextOffline]_vars

\* A run on a plan whose earlier runs stored items
InitReparse ==
    /\ environ = EmptyEnviron
    /\ InitAIClient
    /\ InitRun
    /\ plan_items \in EarlierTables
    /\ InitIng
    /\ InitCat
    /\ InitSeg

NextReparse ==
    \/ ParsePlanWithLlm(ExtractTexts, {0}, BOOLEAN)
    \/ PersistPlanDocument(ExtractTexts, {<<>>, <<"a">>})
    \/ CollectFragment(AllOutcomes)
    \/ CollectReturn

SpecReparse == InitReparse /\ [][NextReparse]_vars

\* Segmentation of every modelled document, for no tenant and for tenant 1
InitSegmenter ==
    /\ environ = EmptyEnviron
    /\ InitAIClient
    /\ InitEx
    /\ InitIng
    /\ InitCat
    /\ seg_pc = "idle"
    /\ seg_args \in [raw_text : SegTexts, institution_id : SegInstitutions]
    /\ seg_out = <<>>

NextSeg == SegmentText

SpecSeg == InitSegmenter /\ [][NextSeg]_vars


\* Segmentation of the scenario documents
InitScenario ==
    /\ environ = EmptyEnviron
    /\ InitAIClient
    /\ InitEx
    /\ InitIng
    /\ InitCat
    /\ seg_pc = "idle"
    /\ seg_args \in [raw_text : ScenarioTexts, institution_id : SegInstitutions]
    /\ seg_out = <<>>

SpecScenario == InitScenario /\ [][NextSeg]_vars


\* Catalog writes by the owner and cached lookups by requests
InitCatalog ==
    /\ environ = EmptyEnviron
    /\ InitAIClient
    /\ InitEx
    /\ InitIng
    /\ InitSeg
    /\ alias_table = SeededAliasTable
    /\ prompt_table \in PromptTables
    /\ alias_cache = [t \in Tenants |-> NoEntry]
    /\ keyword_cache = [t \in Tenants |-> NoEntry]
    /\ prompt_cache = [t \in Tenants |-> NoEntry]
    /\ handler = Idle
    /\ lookup = NoLookup
    /\ writes = 0
    /\ pending = NoPending

NextCatalog ==
    \/ AddGradeAlias
    \/ DeleteGradeAlias
    \/ UpdateCurriculumPrompt
    \/ ClearCaches
    \/ NormalizeGradeLabel(LookupLabels)
    \/ PromptText
    \/ AreaKeywordList

SpecCatalog == InitCatalog /\ [][NextCatalog]_vars

\* The alias catalog with a request thread that looks a grade up while the
\* owner's request writes and invalidates
InitThreads ==
    /\ environ = EmptyEnviron
    /\ InitAIClient
    /\ InitEx
    /\ InitIng
    /\ InitSeg
    /\ InitCat

NextThreads ==
    \/ AddGradeAlias
    \/ DeleteGradeAlias
    \/ ClearCaches
    \/ NormalizeGradeLabel(LookupLabels)
    \/ ReadAliasRows(LookupLabels)
    \/ StoreAliasMap

SpecThreads == InitThreads /\ [][NextThreads]_vars

\* Grade labels normalized against the default catalog, or against the
\* catalog with the rows of tenant 1
InitNormalize ==
    /\ environ = EmptyEnviron
    /\ InitAIClient
    /\ InitEx
    /\ InitIng
    /\ InitSeg
    /\ alias_table \in {default_grade_aliases, SeededAliasTable}
    /\ prompt_table = <<>>
    /\ alias_cache = [t \in Tenants |-> NoEntry]
    /\ keyword_cache = [t \in Tenants |-> NoEntry]
    /\ prompt_cache = [t \in Tenants |-> NoEntry]
    /\ handler = Idle
    /\ lookup = NoLookup
    /\ writes = 0
    /\ pending = NoPending

NextNormalize == NormalizeGradeLabel(GradeLabels)

SpecNormalize == InitNormalize /\ [][NextNormalize]_vars

\* Ingestion of pasted text and uploads, deletion, and segment queries
InitIngest ==
    /\ environ = EmptyEnviron
    /\ InitAIClient
    /\ InitEx
    /\ InitSeg
    /\ InitCat
    /\ InitIng

NextIngest ==
    \/ IngestFromText
    \/ IngestFromFile
    \/ SegmentAndCommit
    \/ DeleteDocument
    \/ SegmentsForGrade

SpecIngest == InitIngest /\ [][NextIngest]_vars

----------------------------------------------------------------------------
(* Claims about the AI client *)

\* The network failures C1 lists: HTTP error, network error, timeout, empty message
ListedFailure(net) ==
    \/ net.kind \in {"HTTPError", "URLError", "timeout"}
    \/ /\ net.kind = "body" /\ net.json_ok
       /\ ~(net.choices /\ net.content.present /\ ~net.content.some)
       /\ Strip(IF net.choices THEN net.content.v ELSE <<>>) = <<>>

\* The networked call succeeded with a non-empty message
NetSucceeded(net) ==
    /\ net.kind = "body" /\ net.json_ok /\ net.choices
    /\ net.content.some /\ Strip(net.content.v) # <<>>

\* C1: generate never raises when the networked provider fails: whenever a
\* generate call took the networked path and that call ended in an HTTP error,
\* a network error, a timeout or an empty message, generate returned a result
\* with provider "heuristic"; and a result with provider "openai" is returned
\* only when the networked call succeeded with a non-empty message.
C1_GenerateFallsBackWithoutRaising ==
    ai_out.status # "none" =>
        /\ (UsesNetwork(client) /\ ListedFailure(ai_call.net))
              => (ai_out.status = "returned" /\ ai_out.result.provider = S_heuristic)
        /\ (ai_out.status = "returned" /\ ai_out.result.provider = S_openai)
              => (UsesNetwork(client) /\ NetSucceeded(ai_call.net))

\* The provider name an override asks for, as __init__ reads it
OverrideName(o) == Lower(Strip(IF o.some THEN o.v ELSE <<>>))

\* C2: construction picks the provider by priority: a supported override
\* (openai, heuristic); otherwise the AI_PROVIDER default if set; otherwise
\* "openai" if an API credential is present; otherwise "heuristic".
C2_ProviderPriority ==
    client.constructed =>
        LET supported  == OverrideName(client.override) \in {S_openai, S_heuristic}
            env_set    == environ.AI_PROVIDER.some /\ environ.AI_PROVIDER.v # <<>>
            credential == \/ (environ.AI_API_KEY.some /\ environ.AI_API_KEY.v # <<>>)
                          \/ (environ.OPENAI_API_KEY.some /\ environ.OPENAI_API_KEY.v # <<>>)
        IN  /\ supported => client.provider = OverrideName(client.override)
            /\ (~supported /\ env_set) => client.provider = Lower(environ.AI_PROVIDER.v)
            /\ (~supported /\ ~env_set /\ credential) => client.provider = S_openai
            /\ (~supported /\ ~env_set /\ ~credential) => client.provider = S_heuristic

\* An unsupported override was ignored in favour of the environment default
C2_Witness ==
    /\ client.constructed
    /\ client.override = Some(S_azure)
    /\ environ.AI_PROVIDER = Some(S_OpenAI_mixed)
    /\ client.provider = S_openai

----------------------------------------------------------------------------
(* Claims about chunking and extraction *)

\* C3: consecutive windows overlap: whenever a run yields a window k+1 and the
\* effective overlap (OVERLAP capped at half the window size) is at least one
\* character, window k+1 starts before the position where window k ended.
C3_ConsecutiveWindowsOverlap ==
    \A k \in 1..(Len(ex_log) - 1) :
        gen.overlap >= 1 => ex_log[k + 1].window.start < ex_log[k].window.end

\* C4: no text is lost by chunking: once the generator is exhausted, every
\* non-whitespace character of the trimmed text lies inside one of the windows
\* that were yielded.
C4_NoTextLostByChunking ==
    ex_pc = "done" =>
        \A p \in 1..Len(gen.clean) :
            gen.clean[p] \notin Whitespace =>
                \E k \in 1..Len(ex_log) :
                    ex_log[k].window.start < p /\ p <= ex_log[k].window.end

\* the text a run works on, before trimming
RunText ==
    IF ex_args.entry = "persist_plan_document" /\ ex_args.text = <<>>
    THEN ex_args.document_text ELSE ex_args.text

\* the window size of a run: the given chunk_size, or MAX_CHARS
RunWindowSize == IF ex_args.chunk_size # 0 THEN ex_args.chunk_size ELSE MAX_CHARS

\* C7 as claimed: for every input text shorter than one window size, a finished
\* extraction has issued exactly one generate call.
C7_ShortTextOneCall_AsClaimed ==
    (ex_pc = "done" /\ Len(RunText) < RunWindowSize) => gen_calls = 1

\* C7 amended: for every input text shorter than one window size, a finished
\* extraction has issued exactly one generate call when the text is not blank
\* (non-empty after trimming), and none when it is blank.
C7_ShortTextOneCall ==
    (ex_pc = "done" /\ Len(RunText) < RunWindowSize) =>
        gen_calls = (IF Strip(RunText) = <<>> THEN 0 ELSE 1)

\* A short non-blank text with an explicit chunk size went through in one call
C7_Witness ==
    /\ ex_pc = "done"
    /\ ex_args.entry = "parse_plan_with_llm"
    /\ ex_args.chunk_size = 3
    /\ ex_args.text = <<"a", " ">>
    /\ gen_calls = 1

\* The responses C5 calls unparseable: no JSON candidate (empty text, no bracket,
\* closing bracket first), invalid JSON, a dict holding no list under
\* items / plan_items / data
UnparseableTexts ==
    {T_empty, T_prose, T_reversed, T_invalid_json, T_cited_prefix, T_scalar_dict, T_bare_item}

Unparseable(entry) == ~entry.outcome.raised /\ entry.outcome.text \in UnparseableTexts

\* the items of the collected list that window i (0-based) produced
ItemsOfWindow(i) ==
    SelectSeq(collected, LAMBDA item : Get(item.metadata, K_fragment_index) = JNum(i))

\* C5: a window whose response cannot be parsed contributes zero items and does
\* not stop the run (no exception leaves the loop in that iteration); the
\* returned list still holds the item of every window answered with the
\* well-formed one-item list; and it is empty when every response is unparseable.
C5_UnparseableWindowContributesNothing ==
    /\ \A i \in 1..Len(ex_log) :
          Unparseable(ex_log[i]) =>
              /\ ItemsOfWindow(i - 1) = <<>>
              /\ ~(i = Len(ex_log) /\ ex_pc = "raised")
    /\ ex_pc = "done" =>
          /\ \A i \in 1..Len(ex_log) :
                ex_log[i].outcome = GenerateText(T_good_list) =>
                    /\ Len(ItemsOfWindow(i - 1)) = 1
                    /\ ItemsOfWindow(i - 1)[1].descripcion = S_Leer
          /\ (\A i \in 1..Len(ex_log) : Unparseable(ex_log[i]))
                => (collected = <<>> /\ ex_return = 0)

\* Invalid JSON for the first window, a good list for the second
C5_Witness ==
    /\ ex_pc = "done"
    /\ Len(ex_log) = 2
    /\ ex_log[1].outcome = GenerateText(T_invalid_json)
    /\ ex_log[2].outcome = GenerateText(T_good_list)
    /\ Len(collected) = 1
    /\ ex_return = 1

\* C6: extraction never raises past the pipeline boundary: no exception leaves
\* _collect_llm_items, whatever text the backend returned for a window.
C6_CollectNeverRaises ==
    ex_raised_in # "_collect_llm_items"

----------------------------------------------------------------------------
(* Claims about the segmentation *)

\* the lines of the document that was segmented
SegSource == SplitLines(seg_args.raw_text)

\* C8: the segments _segment_text returns have line ranges that lie within
\* the document (0 <= start_line < end_line <= line count) and follow one
\* another without overlap, in increasing position.
C8_SegmentRangesDisjointOrdered ==
    seg_pc = "done" =>
        /\ \A k \in 1..Len(seg_out) :
              /\ 0 <= seg_out[k].start_line
              /\ seg_out[k].start_line < seg_out[k].end_line
              /\ seg_out[k].end_line <= Len(SegSource)
        /\ \A k \in 1..(Len(seg_out) - 1) :
              seg_out[k].end_line <= seg_out[k + 1].start_line

\* two area segments inside a grade slice that does not start the document
C8_Witness ==
    /\ seg_pc = "done"
    /\ Len(seg_out) = 2
    /\ seg_out[1].start_line > 0
    /\ seg_out[1].grade_label = seg_out[2].grade_label
    /\ seg_out[1].grade_label.some
    /\ seg_out[1].area # S_General

\* C9: the content_text of every returned segment is the lines of the source
\* from start_line up to end_line (exclusive), joined by line feeds and
\* trimmed, for "General" segments and for area segments alike.
C9_ContentRoundTrips ==
    seg_pc = "done" =>
        \A k \in 1..Len(seg_out) :
            seg_out[k].content_text =
                Strip(Join(<<"\n">>, SubSeq(SegSource, seg_out[k].start_line + 1,
                                            seg_out[k].end_line)))

\* an area segment whose range ends in a blank line that the trimming
\* removes, followed by an area segment that starts after line 0
C9_Witness ==
    /\ seg_pc = "done"
    /\ Len(seg_out) = 2
    /\ seg_out[1].area # S_General
    /\ seg_out[1].content_text #
          Join(<<"\n">>, SubSeq(SegSource, seg_out[1].start_line + 1, seg_out[1].end_line))
    /\ seg_out[2].area # S_General
    /\ seg_out[2].start_line > 0

\* whether the line at 0-based index idx matches the grade-heading pattern
IsGradeHeading(idx) ==
    grade_regex_search(clean_heading_prefix(SegSource[idx + 1])).some

\* the 0-based indices of the lines _looks_like_area_heading accepts
DetectedAreaHeadings ==
    {idx \in 0..(Len(SegSource) - 1) :
        /\ Strip(SegSource[idx + 1]) # <<>>
        /\ looks_like_area_heading(clean_heading_prefix(Strip(SegSource[idx + 1])),
                                   AreaKeywordRows, seg_args.institution_id)}

\* C10: for a text that is not blank and in which no line matches the
\* grade-heading pattern, every segment has no grade label, and there is
\* exactly one segment per detected area heading, starting at that heading,
\* or, when no area heading is detected, exactly one "General" segment that
\* spans the whole document.
C10_NoGradeHeadingSegments ==
    (/\ seg_pc = "done"
     /\ Strip(seg_args.raw_text) # <<>>
     /\ \A idx \in 0..(Len(SegSource) - 1) : ~IsGradeHeading(idx)) =>
        /\ \A k \in 1..Len(seg_out) : seg_out[k].grade_label = NoneStr
        /\ IF DetectedAreaHeadings = {}
           THEN /\ Len(seg_out) = 1
                /\ seg_out[1].area = S_General
                /\ seg_out[1].start_line = 0
                /\ seg_out[1].end_line = Len(SegSource)
           ELSE /\ Len(seg_out) = Cardinality(DetectedAreaHeadings)
                /\ \A k \in 1..Len(seg_out) : seg_out[k].start_line \in DetectedAreaHeadings

----------------------------------------------------------------------------
(* Claims about the seeded catalogs *)

\* the six-line document of the scenario
TercerGradoText == ScenarioText(Capitalize(A_tercer) \o <<" ">> \o S_grado,
                                Line_MATEMATICA, L_ciencias_sociales)

\* C11: segmenting "Tercer grado", "MATEMÁTICA", "Sumar y restar hasta 100.",
\* a blank line, "Ciencias Sociales", "Las familias y sus costumbres." with
\* only the seeded catalogs yields exactly two segments, both with grade
\* label "3", with areas "Matemática" and "Ciencias Sociales".
C11_TercerGradoScenario ==
    (/\ seg_pc = "done"
     /\ seg_args = [raw_text |-> TercerGradoText, institution_id |-> 0]) =>
        /\ Len(seg_out) = 2
        /\ seg_out[1].grade_label = Some(<<"3">>)
        /\ seg_out[2].grade_label = Some(<<"3">>)
        /\ seg_out[1].area = L_matematica
        /\ seg_out[2].area = L_ciencias_sociales

----------------------------------------------------------------------------
(* Claims about the catalogs and their caches *)

\* the last lookup was made with no request under way, and no write followed
LookupIsCurrent == lookup.current

\* C12: after add_grade_alias has committed a global alias and called
\* clear_caches(), a normalize_grade_label call for that alias (no tenant)
\* returns the value that was written.
C12_LookupAfterInvalidationSeesWrite ==
    (/\ lookup.kind = "grade"
     /\ LookupIsCurrent
     /\ handler.action = "add_grade_alias"
     /\ lookup.raw = handler.alias
     /\ lookup.institution_id = 0) =>
        lookup.result = Some(handler.value)

\* the rows of the alias table a lookup of the key for the tenant can see
RowsOf(institution_id, key) ==
    {i \in 1..Len(alias_table) :
        /\ alias_table[i].institution_id = institution_id
        /\ Lower(alias_table[i].alias) = key}

\* the active prompts of the parser context a tenant (or nobody, 0) holds
ActivePrompts(institution_id) ==
    {i \in 1..Len(prompt_table) :
        /\ prompt_table[i].institution_id = institution_id
        /\ prompt_table[i].context = PROMPT_CONTEXT
        /\ prompt_table[i].is_active}

\* C13: a lookup made on current caches gives tenant rows precedence with
\* global fallback.  The alias map of a tenant holds, for an alias the tenant
\* has a row for, the tenant's value, otherwise the global row's value,
\* otherwise nothing; the prompt of a tenant is its active prompt when it has
\* one, otherwise the global active prompt, otherwise the built-in default.
C13_TenantRowsTakePrecedence ==
    /\ (lookup.kind = "grade" /\ LookupIsCurrent) =>
          LET own  == IF lookup.institution_id = 0 THEN {}
                      ELSE RowsOf(lookup.institution_id, lookup.raw)
              glob == RowsOf(0, lookup.raw)
          IN  IF own # {}
              THEN \E i \in own : lookup.mapped = Some(alias_table[i].normalized_value)
              ELSE IF glob # {}
              THEN \E i \in glob : lookup.mapped = Some(alias_table[i].normalized_value)
              ELSE lookup.mapped = NoneStr
    /\ (lookup.kind = "prompt" /\ LookupIsCurrent) =>
          LET own  == IF lookup.institution_id = 0 THEN {}
                      ELSE ActivePrompts(lookup.institution_id)
              glob == ActivePrompts(0)
          IN  IF own # {}
              THEN \E i \in own : lookup.text = prompt_table[i].prompt_text
              ELSE IF glob # {}
              THEN \E i \in glob : lookup.text = prompt_table[i].prompt_text
              ELSE lookup.text = DEFAULT_PROMPT

\* after a catalog write and its invalidation, tenant 1 looks up "segundo",
\* for which it has its own row besides the global one: it gets its own "8"
C13_Witness ==
    /\ lookup.kind = "grade"
    /\ LookupIsCurrent
    /\ lookup.institution_id = 1
    /\ lookup.raw = A_segundo
    /\ handler.action = "add_grade_alias"
    /\ RowsOf(0, A_segundo) # {}
    /\ RowsOf(1, A_segundo) # {}
    /\ lookup.mapped = Some(<<"8">>)


----------------------------------------------------------------------------
(* Claims about ingestion *)

SegmentsOf(id) == SelectSeq(segments, LAMBDA r : r.document_id = id)

\* the document an ingest call returned is ready with the count of its stored
\* segments, or in error with a message
ReturnedDocumentSettled ==
    ingest.pc = "returned" =>
        /\ ingest.document.status \in {"ready", "error"}
        /\ ingest.document.status = "ready" =>
              ingest.document.segment_count = Len(SegmentsOf(ingest.document.id))
        /\ ingest.document.status = "error" => ingest.document.error_message.some
        /\ \E i \in 1..Len(documents) : documents[i] = ingest.document

\* a call creates its document in processing, and the document leaves
\* processing for ready or error only
StatusStep ==
    /\ (ingest.pc # "created" /\ ingest'.pc = "created") =>
          ingest'.document.status = "processing"
    /\ (ingest.pc = "created" /\ ingest'.document.id = ingest.document.id) =>
          \/ ingest'.document.status = ingest.document.status
          \/ /\ ingest.document.status = "processing"
             /\ ingest'.document.status \in {"ready", "error"}

\* a stored document keeps its row and its segments, or is deleted with them
StoredDocumentStep ==
    \A i \in 1..Len(documents) :
        \/ /\ \E j \in 1..Len(documents') : documents'[j] = documents[i]
           /\ SelectSeq(segments', LAMBDA r : r.document_id = documents[i].id)
                 = SegmentsOf(documents[i].id)
        \/ /\ \A j \in 1..Len(documents') : documents'[j].id # documents[i].id
           /\ \A k \in 1..Len(segments') : segments'[k].document_id # documents[i].id

\* C14: a document is created in status processing and moves to ready or to
\* error only; the document an ingest call returns is ready, with
\* segment_count the number of its stored segments, or in error with a
\* message, never in processing; a stored document is changed by nothing
\* but its deletion
C14_StatusLifecycle ==
    /\ []ReturnedDocumentSettled
    /\ [][StatusStep /\ StoredDocumentStep]_vars

\* a call returned a document in error while an earlier document is stored
\* ready with its two segments
C14_Witness ==
    /\ ingest.pc = "returned"
    /\ ingest.document.status = "error"
    /\ \E i \in 1..Len(documents) :
          /\ documents[i].status = "ready"
          /\ documents[i].segment_count = 2
          /\ Len(SegmentsOf(documents[i].id)) = 2

\* C15: a document whose segmentation or segment construction raised is
\* stored in status error with the message of the exception, and no segment
\* of it is stored
C15_FailedIngestStoresNoSegment ==
    \A i \in 1..Len(documents) :
        documents[i].status = "error" =>
            /\ documents[i].error_message.some
            /\ SegmentsOf(documents[i].id) = <<>>

\* C16: after ingest_from_file raised because the extraction failed, a
\* document in status error with the message of the failure is stored
C16_ExtractionFailureLeavesErrorDocument ==
    (ingest.pc = "raised" /\ ingest.raised_in = "extract") =>
        \E i \in 1..Len(documents) :
            /\ documents[i].status = "error"
            /\ documents[i].error_message = Some(ingest.error)

\* C17: once ingest_from_file has left the extraction, by return or by
\* exception, the temporary file of the call does not exist
C17_TemporaryFileRemoved ==
    (ingest.op = "file" /\ ingest.pc \in {"created", "returned", "raised"}) =>
        ingest.tmp \notin tmp_files

\* C18: the text the PDF extraction returned has a character that is not
\* white space
C18_PdfTextHasContent ==
    (ingest.op = "file" /\ ingest.pdf /\ ingest.pc \in {"created", "returned"}) =>
        Strip(ingest.text) # <<>>

\* the stored segments of the ready documents among the queried ones
ReadySegments ==
    SelectSeq(segments, LAMBDA r :
        \E i \in 1..Len(documents) : /\ documents[i].id = r.document_id
                                     /\ documents[i].id \in seg_query.doc_ids
                                     /\ documents[i].status = "ready")

\* C19: every row segments_for_grade returns belongs to a ready document and
\* carries the requested grade label when a segment with it exists, else,
\* with fallback_to_general, no grade label
C19_SegmentsForGradeFilters ==
    seg_query.asked =>
        \A k \in 1..Len(seg_query.rows) :
            LET row      == seg_query.rows[k]
                specific == \E j \in 1..Len(ReadySegments) :
                                /\ Truthy(seg_query.grade_label)
                                /\ ReadySegments[j].grade_label = seg_query.grade_label
            IN  /\ \E j \in 1..Len(ReadySegments) : ReadySegments[j] = row
                /\ IF specific THEN row.grade_label = seg_query.grade_label
                   ELSE seg_query.fallback_to_general /\ ~row.grade_label.some

----------------------------------------------------------------------------
(* Claims about the stored plan items *)

\* the stored items of the pair the run worked on: plan 1 and the plan
\* document of the run, none for parse_plan_with_llm
PairItems ==
    SelectSeq(plan_items, LAMBDA r : /\ r.plan_id = 1
                                     /\ r.plan_document_id = ex_args.plan_document_id)

\* C20: when parse_plan_with_llm or persist_plan_document has completed, the
\* stored items of the (plan, plan document) pair are the items this run
\* collected, in number the count returned
C20_RunReplacesItems ==
    ex_pc = "done" =>
        /\ PairItems = [k \in 1..Len(collected) |->
                           PlanItem(1, ex_args.plan_document_id, collected[k])]
        /\ ex_return = Len(PairItems)

\* the stored items of plan plan_id attached to plan document
\* plan_document_id, 0 for the items attached to no document
ItemsOf(rows, plan_id, plan_document_id) ==
    SelectSeq(rows, LAMBDA r : /\ r.plan_id = plan_id
                               /\ r.plan_document_id = plan_document_id)

\* C28: replacing items is scoped to one (plan, plan document) pair: a step of
\* a run of persist_plan_document for document 1, or of parse_plan_with_llm
\* (the pair with no document), leaves the stored items of every other pair
\* as they were, those of the plan's other documents included
C28_RunKeepsOtherPairs ==
    [][\A plan_id \in 1..2, plan_document_id \in 0..2 :
          (plan_id # 1 \/ plan_document_id # ex_args.plan_document_id) =>
              ItemsOf(plan_items', plan_id, plan_document_id)
                  = ItemsOf(plan_items, plan_id, plan_document_id)]_vars

----------------------------------------------------------------------------
(* Claims about the numeric knobs and the heuristic provider *)

\* a value that is set and is not the text of a number
NonNumeric(raw) == Truthy(raw) /\ ~float_of(raw.v).ok

\* C21: construction never fails because of an invalid numeric override: once
\* AIClient(...) has been called the client exists, and for each of
\* AI_TEMPERATURE, AI_MAX_TOKENS and AI_TIMEOUT a non-numeric value leaves the
\* knob at its default 0.2, 700, 20.0
C21_InvalidKnobFallsBack ==
    (client.constructed \/ client.raised) =>
        /\ client.constructed
        /\ NonNumeric(environ.AI_TEMPERATURE) => client.temperature = DefaultTemperature
        /\ NonNumeric(environ.AI_MAX_TOKENS) => client.max_tokens = DefaultMaxTokens
        /\ NonNumeric(environ.AI_TIMEOUT) => client.timeout = DefaultTimeout

\* a generate call that was served by the offline path
ServedOffline(out) == out.status = "returned" /\ out.result.provider = S_heuristic

\* C22: the offline provider is deterministic: when two successive generate
\* calls on one client with the same context are both served by the offline
\* path, the second returns the text, model and provider of the first,
\* whatever the clock reads at each call
C22_OfflineDeterministic ==
    [][(/\ ai_calls' = ai_calls + 1
        /\ ai_call'.context = ai_call.context
        /\ ServedOffline(ai_out)
        /\ ServedOffline(ai_out'))
            => ai_out'.result = ai_out.result]_vars

----------------------------------------------------------------------------
(* Claims about the collected items *)

\* the raw items the response to window i (1-based in the log) holds
RawItems(i) ==
    IF ex_log[i].outcome.raised THEN <<>> ELSE parse_llm_payload(ex_log[i].outcome.text)

\* the raw item carries a description / an area that is a non-blank string
HasDescription(payload) ==
    /\ Get(payload, K_descripcion).t = "str"
    /\ Strip(Get(payload, K_descripcion).s) # <<>>
HasArea(payload) ==
    /\ Get(payload, K_area).t = "str"
    /\ Strip(Get(payload, K_area).s) # <<>>

\* C23: every collected item has a description that is non-empty after
\* trimming and a non-empty area; and when _collect_llm_items has returned,
\* each window contributed one item per raw item with a non-blank description
\* (the others were discarded), with area "General" where the raw item had none
C23_ItemsHaveDescriptionAndArea ==
    /\ \A k \in 1..Len(collected) :
          /\ Strip(collected[k].descripcion) # <<>>
          /\ collected[k].area # <<>>
    /\ ex_pc = "done" =>
          \A i \in 1..Len(ex_log) :
             LET kept == SelectSeq(RawItems(i), HasDescription)
             IN  /\ Len(ItemsOfWindow(i - 1)) = Len(kept)
                 /\ \A k \in 1..Len(kept) :
                       /\ ItemsOfWindow(i - 1)[k].descripcion
                             = Strip(Get(kept[k], K_descripcion).s)
                       /\ ~HasArea(kept[k]) => ItemsOfWindow(i - 1)[k].area = S_General

\* A blank description for the first window was discarded, the item without
\* area of the second window was kept under "General"
C23_Witness ==
    /\ ex_pc = "done"
    /\ Len(ex_log) = 2
    /\ ex_log[1].outcome = GenerateText(<<"[">> \o Braces(ItemBlankDescription) \o <<"]">>)
    /\ ex_log[2].outcome = GenerateText(<<"[">> \o Braces(ItemBlankArea) \o <<"]">>)
    /\ Len(collected) = 1
    /\ collected[1].area = S_General
    /\ collected[1].descripcion = S_Leer

----------------------------------------------------------------------------
(* Claims about grade normalization *)

\* the code of each word of the grade-heading pattern, in the order of GradeWords
GradeWordCodes == <<"1", "1", "2", "3", "4", "5", "6", "7", "7">>

\* the words of a label once lower-cased and rid of the degree marks
LabelWords(raw) == Split(Remove(Remove(Lower(raw), <<"°">>), <<"º">>))

\* C24: normalize_grade_label returns the code of an alias of the combined
\* (global + tenant) map when a word of the lower-cased label equals that
\* alias; under the default catalog each grade word of the grade-heading
\* pattern followed by "grado" normalizes to its code 1-7; and the label "3"
\* is returned unchanged
C24_GradeWordsNormalize ==
    lookup.kind = "grade" =>
        LET alias_map == grade_alias_map(alias_table, lookup.institution_id)
            words     == LabelWords(lookup.raw)
            hits      == {i \in 1..Len(alias_map) :
                            \E w \in 1..Len(words) : words[w] = alias_map[i].key}
        IN  /\ hits # {} => \E i \in hits : lookup.result = Some(alias_map[i].value)
            /\ alias_table = default_grade_aliases =>
                  \A i \in 1..Len(GradeWords) :
                     lookup.raw = GradeWords[i] \o <<" ">> \o S_grado
                        => lookup.result = Some(<<GradeWordCodes[i]>>)
            /\ lookup.raw = <<"3">> => lookup.result = Some(<<"3">>)

----------------------------------------------------------------------------
(* Claims about the windows of _chunk_text *)

\* 0-based positions of the line breaks inside the max_chars characters that
\* follow start
BreaksInside(start) ==
    {p \in start..(Min(Len(gen.clean), start + gen.max_chars) - 1) : gen.clean[p + 1] = "\n"}

\* where a window starting at start ends when it does not reach the end of
\* the text: the last line break inside it if that break lies more than
\* max_chars / 2 characters from start, else the hard boundary
ClaimedEnd(start) ==
    LET breaks == BreaksInside(start)
        last   == CHOOSE p \in breaks : \A q \in breaks : q <= p
    IN  IF breaks # {} /\ 2 * (last - start) > gen.max_chars THEN last
        ELSE start + gen.max_chars

\* C25: every window of _chunk_text has at most max_chars characters; a
\* window that does not reach the end of the text ends at the last line break
\* inside it when that break lies past the window's midpoint and at the hard
\* max_chars boundary otherwise; and once the generator is exhausted the last
\* window is the trimmed remainder of the text, no window following one that
\* reached the end
C25_WindowsOfChunkText ==
    /\ \A k \in 1..Len(ex_log) :
          LET w == ex_log[k].window
          IN  /\ Len(w.chunk) <= gen.max_chars
              /\ w.end - w.start <= gen.max_chars
              /\ w.end < Len(gen.clean) => w.end = ClaimedEnd(w.start)
              /\ k < Len(ex_log) => w.end < Len(gen.clean)
    /\ (ex_pc = "done" /\ Len(ex_log) > 0) =>
          LET w == ex_log[Len(ex_log)].window
          IN  /\ w.end = Len(gen.clean)
              /\ w.chunk = Strip(Slice(gen.clean, w.start, Len(gen.clean)))

----------------------------------------------------------------------------
(* Claims about the area boundaries *)

\* the lines _segment_text hands to _split_by_area: all of them when no line
\* is a grade heading, else those from the first grade heading on
InGradeSlice(idx) ==
    \A g \in 0..(Len(SegSource) - 1) :
        IsGradeHeading(g) => \E h \in 0..idx : IsGradeHeading(h)

\* the label claimed for the heading at 0-based index idx: the label of the
\* first catalog row whose pattern matches, else the heading's own text rid
\* of its prefix, of surrounding ":", "." and "-" and of runs of blanks,
\* cut at 80 characters
ClaimedLabel(idx) ==
    LET heading    == clean_heading_prefix(Strip(SegSource[idx + 1]))
        by_keyword == normalize_area_name(heading, AreaKeywordRows, seg_args.institution_id)
        own_text   == CollapseRuns(Strip(StripChars(Strip(heading), {":", ".", "-"})), Whitespace)
    IN  IF by_keyword.some THEN by_keyword.v ELSE Slice(own_text, 0, 80)

\* C26: every line _looks_like_area_heading accepts among the lines handed to
\* _split_by_area starts a segment, labelled with the catalog's canonical
\* label when a keyword pattern matches and with the heading's own cleaned
\* text otherwise: no recognised heading is dropped
C26_RecognisedHeadingsStartSegments ==
    seg_pc = "done" =>
        \A idx \in DetectedAreaHeadings :
            InGradeSlice(idx) =>
                \E k \in 1..Len(seg_out) :
                    /\ seg_out[k].start_line = idx
                    /\ seg_out[k].area = ClaimedLabel(idx)

----------------------------------------------------------------------------
(* Claims about the caches under concurrent requests *)

\* C27: staleness is confined to the window between a write and its
\* invalidation: a normalize_grade_label call made when every catalog write
\* and its clear_caches() have completed returns the value the catalog as it
\* stands gives, whatever lookups were under way during the write
C27_NoStaleEntryAfterInvalidation ==
    (lookup.kind = "grade" /\ LookupIsCurrent) =>
        lookup.result = normalize_on(Some(lookup.raw),
                                     grade_alias_map(alias_table, lookup.institution_id))

----------------------------------------------------------------------------
(* Claims about runs served by the offline heuristic *)

\* every generate call of the run so far was answered by the offline heuristic
RunServedOffline ==
    \A k \in 1..Len(ex_log) :
        ~ex_log[k].outcome.raised /\ ex_log[k].outcome.provider = S_heuristic

\* C29: a run whose generate calls are all served by the offline heuristic
\* collects no item, whatever the text: the narrative holds no JSON candidate,
\* so the entry point returns 0 and stores nothing
C29_OfflineRunCollectsNothing ==
    (ex_pc \in {"loop", "done"} /\ RunServedOffline) =>
        /\ collected = <<>>
        /\ \A k \in 1..Len(ex_log) :
              extract_json_candidate(ex_log[k].outcome.text) = NoneStr
        /\ ex_pc = "done" => (ex_return = 0 /\ plan_items = <<>>)

\* a finished run of two windows on a client with a credential whose calls
\* all fell back to the heuristic
C29_Witness ==
    /\ ex_pc = "done"
    /\ Len(ex_log) = 2
    /\ RunServedOffline
    /\ UsesNetwork(client)
    /\ ex_return = 0

----------------------------------------------------------------------------
(* Claims about the termination of the chunking loop *)

\* ceil(a / b) for b > 0
CeilDiv(a, b) == (a + b - 1) \div b

\* the windows yielded so far start at strictly increasing offsets, each at
\* least max_chars after the one before, and they and the generate calls are
\* at most ceil(len(text) / max_chars) in number
WindowsBounded ==
    gen.max_chars >= 1 =>
        /\ \A k \in 1..(Len(ex_log) - 1) :
              ex_log[k + 1].window.start >= ex_log[k].window.start + gen.max_chars
        /\ Len(ex_log) <= CeilDiv(Len(gen.clean), gen.max_chars)
        /\ gen_calls <= CeilDiv(Len(gen.clean), gen.max_chars)

\* C30: chunking terminates: for every text and window size >= 1 the start
\* offset strictly increases with each window, so that there are at most
\* ceil(len(text) / max_chars) windows and generate calls, and a run that has
\* entered the loop of _collect_llm_items leaves it and returns
C30_ChunkingTerminates ==
    /\ []WindowsBounded
    /\ (ex_pc = "loop") ~> (ex_pc = "done")

\* a finished run that issued as many calls as the bound allows, more than
\* one, one of its windows cut at a line break
C30_Witness ==
    /\ ex_pc = "done"
    /\ gen_calls > 1
    /\ gen_calls = CeilDiv(Len(gen.clean), gen.max_chars)
    /\ \E k \in 1..Len(ex_log) :
          ex_log[k].window.end < ex_log[k].window.start + gen.max_chars
          /\ ex_log[k].window.end < Len(gen.clean)

====
